---- MODULE Spec2Model ----
(***************************************************************************)
(* A model of the crafty crafting solver: the action catalogue, the craft  *)
(* context, the craft state with its transition function and legal-move    *)
(* pruner, and the simulator drivers built on top of them.                 *)
(*                                                                         *)
(* Conventions.                                                            *)
(*  - Option<T> of a non-negative number is modelled by the number, with   *)
(*    NoneVal (-1) for None.  Option<Action> is the action name or "None". *)
(*  - u32 counters are modelled by integers; a negative value stands for   *)
(*    the result of an unsigned underflow (a panic in a debug build, a     *)
(*    wrapped value of 2^32 - x in a release build).                       *)
(*  - f32 products of the form base * efficiency * modifier / 100 are      *)
(*    computed exactly over the rationals and truncated, as the `as u32`   *)
(*    cast truncates.                                                      *)
(*  - scores (f32 in [0, 1]) are fixed-point numbers with ScoreScale       *)
(*    units to 1.0.                                                        *)
(***************************************************************************)
EXTENDS Integers, Sequences, FiniteSets, TLC

VARIABLES
  st,       \* a craft state: the object the kernel works on, or a driver's `state`
  op,       \* the operation that produced the current state of the model
  source,   \* the craft state the last execute was called on, as it is afterwards
  args,     \* the arguments of the current call of a Simulator driver
  sim,      \* the Simulator of the current call
  actions,  \* a driver's local list of actions
  iteration,\* the iterations the `for` loop of Simulator::search has completed
  ret       \* the values returned by the calls completed so far

NoneVal == -1

(***************************************************************************)
(* action.rs: the catalogue                                                *)
(***************************************************************************)

\* Action::ACTIONS, in declaration order (the order of EnumIndexing::index)
ACTION_LIST ==
  << "BasicSynthesis", "BasicTouch", "MastersMend", "Observe", "WasteNot",
     "Veneration", "StandardTouch", "GreatStrides", "Innovation",
     "BasicSynthesisTraited", "WasteNotII", "ByregotsBlessing",
     "MuscleMemory", "CarefulSynthesis", "Manipulation", "PrudentTouch",
     "AdvancedTouch", "Reflect", "PreparatoryTouch", "Groundwork",
     "DelicateSynthesis", "TrainedEye", "CarefulSynthesisTraited",
     "GroundworkTraited", "PrudentSynthesis", "TrainedFinesse",
     "RefinedTouch", "DelicateSynthesisTraited", "QuickInnovation",
     "ImmaculateMend", "TrainedPerfection" >>

Action == { ACTION_LIST[i] : i \in 1..Len(ACTION_LIST) }

Attr(l, p, q, d, c) ==
  [level |-> l, progress_efficiency |-> p, quality_efficiency |-> q,
   durability_cost |-> d, cp_cost |-> c]

\* Action::attributes (the effect closure is apply_effect below)
attributes(action) ==
  CASE action = "BasicSynthesis"           -> Attr(1, 100, NoneVal, 10, NoneVal)
    [] action = "BasicTouch"               -> Attr(5, NoneVal, 100, 10, 18)
    [] action = "MastersMend"              -> Attr(7, NoneVal, NoneVal, 0, 88)
    [] action = "Observe"                  -> Attr(13, NoneVal, NoneVal, 0, 7)
    [] action = "WasteNot"                 -> Attr(15, NoneVal, NoneVal, NoneVal, 56)
    [] action = "Veneration"               -> Attr(15, NoneVal, NoneVal, NoneVal, 18)
    [] action = "StandardTouch"            -> Attr(18, NoneVal, 125, 10, 32)
    [] action = "GreatStrides"             -> Attr(21, NoneVal, NoneVal, NoneVal, 32)
    [] action = "Innovation"               -> Attr(26, NoneVal, NoneVal, NoneVal, 18)
    [] action = "BasicSynthesisTraited"    -> Attr(31, 120, NoneVal, 10, NoneVal)
    [] action = "WasteNotII"               -> Attr(47, NoneVal, NoneVal, NoneVal, 98)
    [] action = "ByregotsBlessing"         -> Attr(50, NoneVal, 0, 10, 24)
    [] action = "MuscleMemory"             -> Attr(54, 300, NoneVal, 10, 6)
    [] action = "CarefulSynthesis"         -> Attr(62, 150, NoneVal, 10, 7)
    [] action = "Manipulation"             -> Attr(65, NoneVal, NoneVal, NoneVal, 96)
    [] action = "PrudentTouch"             -> Attr(66, NoneVal, 100, 5, 25)
    [] action = "AdvancedTouch"            -> Attr(68, NoneVal, 150, 10, 46)
    [] action = "Reflect"                  -> Attr(69, NoneVal, 300, 10, 6)
    [] action = "PreparatoryTouch"         -> Attr(71, NoneVal, 200, 20, 40)
    [] action = "Groundwork"               -> Attr(72, 300, NoneVal, 20, 18)
    [] action = "DelicateSynthesis"        -> Attr(76, 100, 100, 10, 32)
    [] action = "TrainedEye"               -> Attr(80, NoneVal, 0, 0, 250)
    [] action = "CarefulSynthesisTraited"  -> Attr(82, 180, NoneVal, 10, 7)
    [] action = "GroundworkTraited"        -> Attr(86, 360, NoneVal, 20, 18)
    [] action = "PrudentSynthesis"         -> Attr(88, 180, NoneVal, 5, 18)
    [] action = "TrainedFinesse"           -> Attr(90, NoneVal, 100, NoneVal, 32)
    [] action = "RefinedTouch"             -> Attr(92, NoneVal, 100, NoneVal, 24)
    [] action = "DelicateSynthesisTraited" -> Attr(94, 150, 100, 10, 32)
    [] action = "QuickInnovation"          -> Attr(96, NoneVal, NoneVal, NoneVal, NoneVal)
    [] action = "ImmaculateMend"           -> Attr(98, NoneVal, NoneVal, 0, 112)
    [] action = "TrainedPerfection"        -> Attr(100, NoneVal, NoneVal, 0, NoneVal)

Min(a, b) == IF a <= b THEN a ELSE b
Max(a, b) == IF a >= b THEN a ELSE b

\* u8::saturating_sub
saturating_sub(a, b) == IF a >= b THEN a - b ELSE 0

\* i8 arithmetic wraps to -128..127
WrapI8(x) == ((x + 128) % 256) - 128

\* u8 arithmetic wraps to 0..255
WrapU8(x) == x % 256

\* Action::calc_progress_increase: multiplier is 1, 1.5, 2 or 2.5 (in halves)
calc_progress_increase(state, efficiency) ==
  LET base == state.context.base_progress_factor
      m2   == 2 + (IF state.buffs.veneration > 0 THEN 1 ELSE 0)
                + (IF state.buffs.muscle_memory > 0 THEN 2 ELSE 0)
  IN (base * efficiency * m2) \div 200

\* Action::calc_quality_increase: modifier is (1 + iq/10) * multiplier
calc_quality_increase(state, efficiency) ==
  IF state.action = "TrainedEye"
  THEN state.context.quality_target - state.quality
  ELSE LET base == state.context.base_quality_factor
           eff  == IF state.action = "ByregotsBlessing"
                   THEN 100 + state.buffs.inner_quiet * 20
                   ELSE efficiency
           m2   == 2 + (IF state.buffs.innovation > 0 THEN 1 ELSE 0)
                     + (IF state.buffs.great_strides > 0 THEN 2 ELSE 0)
       IN (base * eff * (10 + state.buffs.inner_quiet) * m2) \div 2000

\* Rust's i8 division truncates toward zero
DivTrunc(a, b) == IF a >= 0 THEN a \div b ELSE -((-a) \div b)

\* Action::calc_durability_cost
calc_durability_cost(state, base_cost) ==
  IF state.previous_combo_action = "TrainedPerfection" THEN 0
  ELSE IF state.buffs.waste_not > 0 \/ state.buffs.waste_not_ii > 0
       THEN DivTrunc(base_cost, 2)
       ELSE base_cost

\* a cost that knows no combos
calc_cp_cost_base_only(state, base_cost) == base_cost

\* Action::calc_cp_cost: reads the state's own `action` field
calc_cp_cost(state, base_cost) ==
  IF \/ state.previous_combo_action = "BasicTouch" /\ state.action = "StandardTouch"
     \/ /\ state.previous_combo_action \in {"StandardTouch", "Observe"}
        /\ state.action = "AdvancedTouch"
  THEN 18
  ELSE base_cost

\* an effect of QuickInnovation that leaves quick_innovation_available set
apply_effect_keeps_quick_innovation(action, state) ==
  CASE action = "MastersMend" ->
         [state EXCEPT !.durability =
            Min(WrapI8(state.durability + 30), state.context.durability_max)]
    [] action = "WasteNot" ->
         [state EXCEPT !.buffs.waste_not = 4, !.buffs.waste_not_ii = 0]
    [] action = "Veneration" -> [state EXCEPT !.buffs.veneration = 4]
    [] action = "GreatStrides" -> [state EXCEPT !.buffs.great_strides = 3]
    [] action = "Innovation" -> [state EXCEPT !.buffs.innovation = 4]
    [] action = "WasteNotII" ->
         [state EXCEPT !.buffs.waste_not = 0, !.buffs.waste_not_ii = 8]
    [] action = "MuscleMemory" -> [state EXCEPT !.buffs.muscle_memory = 5]
    [] action = "Manipulation" -> [state EXCEPT !.buffs.manipulation = 8]
    [] action = "QuickInnovation" -> [state EXCEPT !.buffs.innovation = 1]
    [] action = "ImmaculateMend" ->
         [state EXCEPT !.durability = state.context.durability_max]
    [] OTHER -> state

\* the `effect` closures of create_actions!.  TrainedPerfection's closure
\* assigns `trained_perfection_available`, which is not one of the fields of
\* CraftState that anything reads: no modelled field changes.
apply_effect(action, state) ==
  CASE action = "MastersMend" ->
         [state EXCEPT !.durability =
            Min(WrapI8(state.durability + 30), state.context.durability_max)]
    [] action = "WasteNot" ->
         [state EXCEPT !.buffs.waste_not = 4, !.buffs.waste_not_ii = 0]
    [] action = "Veneration" -> [state EXCEPT !.buffs.veneration = 4]
    [] action = "GreatStrides" -> [state EXCEPT !.buffs.great_strides = 3]
    [] action = "Innovation" -> [state EXCEPT !.buffs.innovation = 4]
    [] action = "WasteNotII" ->
         [state EXCEPT !.buffs.waste_not = 0, !.buffs.waste_not_ii = 8]
    [] action = "MuscleMemory" -> [state EXCEPT !.buffs.muscle_memory = 5]
    [] action = "Manipulation" -> [state EXCEPT !.buffs.manipulation = 8]
    [] action = "QuickInnovation" ->
         [state EXCEPT !.buffs.innovation = 1,
                       !.quick_innovation_available = FALSE]
    [] action = "ImmaculateMend" ->
         [state EXCEPT !.durability = state.context.durability_max]
    [] OTHER -> state

(***************************************************************************)
(* craft_context.rs                                                        *)
(***************************************************************************)

\* player.rs: Player::new
Player_new(job_level, craftsmanship, control, cp) ==
  [job_level |-> job_level, craftsmanship |-> craftsmanship,
   control |-> control, cp |-> cp]

\* CraftContext::base_factors: (stat * 10 / div + constant), scaled by
\* mod / 100 when player.job_level <= recipe.job_level, then truncated
base_factors(player, recipe) ==
  LET scaled == player.job_level <= recipe.job_level
      pnum   == player.craftsmanship * 10 + 2 * recipe.progress_div
      qnum   == player.control * 10 + 35 * recipe.quality_div
  IN << IF scaled
        THEN (pnum * recipe.progress_mod) \div (recipe.progress_div * 100)
        ELSE pnum \div recipe.progress_div,
        IF scaled
        THEN (qnum * recipe.quality_mod) \div (recipe.quality_div * 100)
        ELSE qnum \div recipe.quality_div >>

\* an action pool that keeps the untraited twin of a traited action
determine_action_pool_keeps_twins(player, recipe) ==
  { a \in Action :
      /\ player.job_level >= attributes(a).level
      /\ player.cp >= Max(attributes(a).cp_cost, 0)
      /\ ~ ( a = "TrainedEye"
             /\ saturating_sub(player.job_level, recipe.job_level) < 10 ) }

\* CraftContext::determine_action_pool
determine_action_pool(player, recipe) ==
  LET unlocked ==
        { a \in Action :
            /\ player.job_level >= attributes(a).level
            /\ player.cp >= Max(attributes(a).cp_cost, 0)
            /\ ~ ( a = "TrainedEye"
                   /\ saturating_sub(player.job_level, recipe.job_level) < 10 ) }
      twins == { << "BasicSynthesisTraited", "BasicSynthesis" >>,
                 << "CarefulSynthesisTraited", "CarefulSynthesis" >>,
                 << "GroundworkTraited", "Groundwork" >>,
                 << "DelicateSynthesisTraited", "DelicateSynthesis" >> }
  IN unlocked \ { t[2] : t \in { u \in twins : u[1] \in unlocked /\ u[2] \in unlocked } }

\* CraftContext::new; an Option<u32> of CraftOptions is NoneVal for None
CraftContext_new(player, recipe, options) ==
  [player_job_level     |-> player.job_level,
   recipe_job_level     |-> recipe.job_level,
   base_progress_factor |-> base_factors(player, recipe)[1],
   base_quality_factor  |-> base_factors(player, recipe)[2],
   step_max             |-> options.max_steps,
   progress_target      |-> recipe.progress,
   starting_quality     |-> IF options.starting_quality = NoneVal
                            THEN 0 ELSE options.starting_quality,
   quality_target       |-> IF options.quality_target = NoneVal
                            THEN recipe.quality ELSE options.quality_target,
   durability_max       |-> recipe.durability,
   cp_max               |-> player.cp,
   is_expert            |-> recipe.is_expert,
   action_pool          |-> determine_action_pool(player, recipe),
   player_is_specialist |-> options.player_is_specialist,
   use_manipulation     |-> options.use_manipulation,
   use_delineation      |-> options.use_delineation]

(***************************************************************************)
(* craft_state.rs                                                          *)
(***************************************************************************)

ScoreScale == 10000

\* Buffs::new
Buffs_new ==
  [inner_quiet |-> 0, waste_not |-> 0, waste_not_ii |-> 0, manipulation |-> 0,
   great_strides |-> 0, innovation |-> 0, veneration |-> 0, muscle_memory |-> 0]

\* a decrement that takes one stack of inner quiet as well
decrement_timers_with_inner_quiet(buffs) ==
  [buffs EXCEPT !.inner_quiet   = saturating_sub(@, 1),
                !.waste_not     = saturating_sub(@, 1),
                !.waste_not_ii  = saturating_sub(@, 1),
                !.manipulation  = saturating_sub(@, 1),
                !.great_strides = saturating_sub(@, 1),
                !.innovation    = saturating_sub(@, 1),
                !.veneration    = saturating_sub(@, 1),
                !.muscle_memory = saturating_sub(@, 1)]

\* Buffs::decrement_timers
decrement_timers(buffs) ==
  [buffs EXCEPT !.waste_not     = saturating_sub(@, 1),
                !.waste_not_ii  = saturating_sub(@, 1),
                !.manipulation  = saturating_sub(@, 1),
                !.great_strides = saturating_sub(@, 1),
                !.innovation    = saturating_sub(@, 1),
                !.veneration    = saturating_sub(@, 1),
                !.muscle_memory = saturating_sub(@, 1)]

\* an initial state whose step counter starts at 0
CraftState_new_inner_step_zero(context) ==
  [context |-> context,
   step |-> 0,
   progress |-> 0,
   quality |-> context.starting_quality,
   durability |-> context.durability_max,
   cp |-> context.cp_max,
   previous_combo_action |-> "None",
   quick_innovation_available |-> context.use_delineation,
   trained_perfection_active |-> "None",
   buffs |-> Buffs_new,
   action |-> "None",
   score_sum |-> 0,
   max_score |-> 0,
   visits |-> 0,
   available_moves |-> {}]

\* CraftState::_new; trained_perfection_active is "None", "SomeTrue" or
\* "SomeFalse"
CraftState_new_inner(context) ==
  [context |-> context,
   step |-> 1,
   progress |-> 0,
   quality |-> context.starting_quality,
   durability |-> context.durability_max,
   cp |-> context.cp_max,
   previous_combo_action |-> "None",
   quick_innovation_available |-> context.use_delineation,
   trained_perfection_active |-> "None",
   buffs |-> Buffs_new,
   action |-> "None",
   score_sum |-> 0,
   max_score |-> 0,
   visits |-> 0,
   available_moves |-> {}]

\* a pruner without the CP budget rule
hard_rules_no_cp_budget(self, action) ==
  ~ ( self.quality >= self.context.quality_target
      /\ attributes(action).quality_efficiency # NoneVal )

\* the first rules without the quality saturation rule
hard_rules_no_quality_cap(self, action) ==
  LET attrs == attributes(action)
  IN ~ ( attrs.cp_cost # NoneVal
         /\ calc_cp_cost(self, attrs.cp_cost) > self.cp )

\* set_available_moves, the rules of both modes that come first: the CP
\* budget and quality saturation.  TRUE when the action passes them.
hard_rules(self, action) ==
  LET attrs == attributes(action)
  IN /\ ~ ( attrs.cp_cost # NoneVal
            /\ calc_cp_cost(self, attrs.cp_cost) > self.cp )
     /\ ~ ( self.quality >= self.context.quality_target
            /\ attrs.quality_efficiency # NoneVal )

\* set_available_moves, the `if strict { ... }` block: "true" and "false" are
\* its early returns, "next" falls through to the match on the action
strict_rules(self, action) ==
  LET attrs == attributes(action)
      would_finish ==
        self.progress + calc_progress_increase(self, attrs.progress_efficiency)
          >= self.context.progress_target
  IN
  IF /\ self.step = 1
     /\ self.context.quality_target > 0
     /\ ~self.context.is_expert
     /\ "TrainedEye" \in self.context.action_pool
  THEN IF action = "TrainedEye" THEN "true" ELSE "false"
  ELSE IF /\ self.context.recipe_job_level = self.context.player_job_level
          /\ self.buffs.muscle_memory > 0
          /\ attrs.quality_efficiency # NoneVal
  THEN "false"
  ELSE IF /\ self.buffs.veneration > 0
          /\ attrs.progress_efficiency = NoneVal
          /\ attrs.quality_efficiency # NoneVal
  THEN "false"
  ELSE IF self.previous_combo_action = "Observe" /\ action # "AdvancedTouch"
  THEN "false"
  ELSE IF attrs.progress_efficiency # NoneVal
  THEN IF would_finish
       THEN IF self.quality < self.context.quality_target \div 5
            THEN "false" ELSE "next"
       ELSE IF self.buffs.innovation > 0 /\ attrs.quality_efficiency = NoneVal
            THEN "false" ELSE "next"
  ELSE "next"

\* set_available_moves, the `match action { ... }`
action_rules(self, action, strict) ==
  CASE action \in {"MuscleMemory", "Reflect"} -> self.step = 1
    [] action = "TrainedEye" -> self.step = 1 /\ ~self.context.is_expert
    [] action = "ByregotsBlessing" ->
         IF strict THEN self.buffs.inner_quiet > 1
                   ELSE self.buffs.inner_quiet > 0
    [] action = "TrainedFinesse" -> self.buffs.inner_quiet = 10
    [] action = "TrainedPerfection" -> self.trained_perfection_active = "None"
    [] action \in {"PrudentSynthesis", "PrudentTouch"} ->
         self.buffs.waste_not = 0 /\ self.buffs.waste_not_ii = 0
    [] action \in {"WasteNot", "WasteNotII"} ->
         IF strict THEN self.buffs.waste_not = 0 /\ self.buffs.waste_not_ii = 0
                   ELSE TRUE
    [] action = "Observe" ->
         IF strict THEN self.previous_combo_action # "Observe" /\ self.cp >= 25
                   ELSE self.previous_combo_action # "Observe"
    [] action \in {"Groundwork", "GroundworkTraited"} ->
         self.durability
           >= calc_durability_cost(self, attributes(action).durability_cost)
    [] action = "RefinedTouch" -> self.previous_combo_action = "BasicTouch"
    [] action = "ImmaculateMend" ->
         IF strict
         THEN /\ WrapI8(self.context.durability_max - self.durability) > 45
              /\ self.buffs.manipulation = 0
         ELSE TRUE
    [] action = "MastersMend" ->
         IF strict
         THEN WrapI8(self.context.durability_max - self.durability) >= 25
         ELSE TRUE
    [] action = "Manipulation" ->
         IF strict
         THEN self.context.use_manipulation /\ self.buffs.manipulation = 0
         ELSE self.context.use_manipulation
    [] action = "GreatStrides" ->
         IF strict THEN self.buffs.great_strides = 0 ELSE TRUE
    [] action \in {"Veneration", "Innovation"} ->
         IF strict THEN self.buffs.veneration <= 1 /\ self.buffs.innovation <= 1
                   ELSE TRUE
    [] action = "QuickInnovation" ->
         IF strict
         THEN /\ self.quick_innovation_available
              /\ self.buffs.innovation = 0
              /\ self.quality > self.context.quality_target \div 3
         ELSE self.quick_innovation_available /\ self.buffs.innovation = 0
    [] OTHER -> TRUE

\* a pruner that forces TrainedEye before the CP and quality rules are applied
keep_closure_forced_first(self, action, strict) ==
  IF strict /\ strict_rules(self, action) # "next"
  THEN strict_rules(self, action) = "true"
  ELSE hard_rules(self, action) /\ action_rules(self, action, strict)

\* a pruner without the strict block
keep_closure_unforced(self, action, strict) ==
  hard_rules(self, action) /\ action_rules(self, action, strict)

\* the closure given to ActionSet::keep in CraftState::set_available_moves
keep_closure(self, action, strict) ==
  IF ~hard_rules(self, action) THEN FALSE
  ELSE IF strict /\ strict_rules(self, action) # "next"
  THEN strict_rules(self, action) = "true"
  ELSE action_rules(self, action, strict)

\* a pruner that fills in the moves of a state past the step limit
set_available_moves_no_step_check(self, strict) ==
  IF self.progress >= self.context.progress_target \/ self.durability <= 0
  THEN self
  ELSE [self EXCEPT !.available_moves =
          { a \in self.context.action_pool : keep_closure(self, a, strict) }]

\* CraftState::set_available_moves
set_available_moves(self, strict) ==
  IF \/ self.progress >= self.context.progress_target
     \/ self.step >= self.context.step_max
     \/ self.durability <= 0
  THEN self
  ELSE [self EXCEPT !.available_moves =
          { a \in self.context.action_pool : keep_closure(self, a, strict) }]

\* CraftState::new
CraftState_new(context) ==
  CHOOSE state \in
    { set_available_moves(s, FALSE) : s \in { CraftState_new_inner(context) } } : TRUE

\* CraftState::new_strict
new_strict(context) ==
  CHOOSE state \in
    { set_available_moves(s, TRUE) : s \in { CraftState_new_inner(context) } } : TRUE

\* CraftState::clone_strict
clone_strict(self) == set_available_moves(self, TRUE)

\* a struct expression that copies visits from *self with the other fields
execute_begin_keeps_visits(self, action) ==
  [self EXCEPT
     !.step = IF action = "QuickInnovation"
              THEN self.step ELSE WrapU8(self.step + 1),
     !.action = action,
     !.score_sum = 0,
     !.max_score = 0,
     !.available_moves = {}]

\* a first statement of _execute in which Observe consumes no step either
execute_begin_free_observe(self, action) ==
  [self EXCEPT
     !.step = IF action \in {"QuickInnovation", "Observe"}
              THEN self.step ELSE WrapU8(self.step + 1),
     !.action = action,
     !.score_sum = 0,
     !.max_score = 0,
     !.visits = 0,
     !.available_moves = {}]

\* _execute, the struct expression: step, action, zeroed statistics, no moves
execute_begin(self, action) ==
  [self EXCEPT
     !.step = IF action = "QuickInnovation"
              THEN self.step ELSE WrapU8(self.step + 1),
     !.action = action,
     !.score_sum = 0,
     !.max_score = 0,
     !.visits = 0,
     !.available_moves = {}]

\* _execute, `if let Some(efficiency) = progress_efficiency`
execute_progress(state, action) ==
  LET efficiency == attributes(action).progress_efficiency
  IN IF efficiency # NoneVal
     THEN [state EXCEPT
             !.progress = @ + calc_progress_increase(state, efficiency),
             !.buffs.muscle_memory = 0]
     ELSE state

\* a quality step in which every touch adds one stack of inner quiet
execute_quality_single_stack(state, action) ==
  LET efficiency == attributes(action).quality_efficiency
  IN IF efficiency # NoneVal
     THEN [state EXCEPT
             !.quality = @ + calc_quality_increase(state, efficiency),
             !.buffs.inner_quiet =
                IF state.context.player_job_level >= 11
                THEN IF action = "ByregotsBlessing"
                     THEN 0
                     ELSE Min(state.buffs.inner_quiet + 1, 10)
                ELSE @,
             !.buffs.great_strides = 0]
     ELSE state

\* _execute, `if let Some(efficiency) = quality_efficiency`
execute_quality(state, action) ==
  LET efficiency == attributes(action).quality_efficiency
  IN IF efficiency # NoneVal
     THEN [state EXCEPT
             !.quality = @ + calc_quality_increase(state, efficiency),
             !.buffs.inner_quiet =
                IF state.context.player_job_level >= 11
                THEN IF \/ state.previous_combo_action = "BasicTouch"
                           /\ action = "RefinedTouch"
                        \/ action \in {"Reflect", "PreparatoryTouch"}
                     THEN Min(state.buffs.inner_quiet + 2, 10)
                     ELSE IF action = "ByregotsBlessing"
                     THEN 0
                     ELSE Min(state.buffs.inner_quiet + 1, 10)
                ELSE @,
             !.buffs.great_strides = 0]
     ELSE state

\* _execute, `if let Some(base_cost) = durability_cost`
execute_durability(state, action) ==
  LET base_cost == attributes(action).durability_cost
  IN IF base_cost # NoneVal
     THEN [state EXCEPT
             !.durability = WrapI8(@ - calc_durability_cost(state, base_cost)),
             !.trained_perfection_active =
                IF base_cost > 0 /\ @ = "SomeTrue" THEN "SomeFalse" ELSE @]
     ELSE state

\* a restore that also rescues a state whose durability has run out
execute_manipulation_rescues(state) ==
  IF state.buffs.manipulation > 0
  THEN [state EXCEPT !.durability =
          Min(WrapI8(@ + 5), state.context.durability_max)]
  ELSE state

\* _execute, `if state.buffs.manipulation > 0 && state.durability > 0`
execute_manipulation(state) ==
  IF state.buffs.manipulation > 0 /\ state.durability > 0
  THEN [state EXCEPT !.durability =
          Min(WrapI8(@ + 5), state.context.durability_max)]
  ELSE state

\* _execute, `if let Some(base_cost) = cp_cost`
execute_cp(state, action) ==
  LET base_cost == attributes(action).cp_cost
  IN IF base_cost # NoneVal
     THEN [state EXCEPT !.cp = @ - calc_cp_cost(state, base_cost)]
     ELSE state

\* _execute, the update of previous_combo_action
execute_combo(state, action) ==
  [state EXCEPT !.previous_combo_action =
     IF \/ @ = "BasicTouch" /\ action \in {"StandardTouch", "RefinedTouch"}
        \/ action \in {"BasicTouch", "Observe"}
     THEN action ELSE "None"]

\* _execute, `if action != Action::QuickInnovation { decrement_timers }`
execute_timers(state, action) ==
  IF action # "QuickInnovation"
  THEN [state EXCEPT !.buffs = decrement_timers(@)]
  ELSE state

\* CraftState::_execute.  Each statement is applied to the value the
\* statements before it produced; {f(s) : s \in {v}} binds that value once.
_execute(self, action) ==
  CHOOSE state \in
    { apply_effect(action, s8) :
      s8 \in { execute_timers(s7, action) :
      s7 \in { execute_combo(s6, action) :
      s6 \in { execute_cp(s5, action) :
      s5 \in { execute_manipulation(s4) :
      s4 \in { execute_durability(s3, action) :
      s3 \in { execute_quality(s2, action) :
      s2 \in { execute_progress(s1, action) :
      s1 \in { execute_begin(self, action) } } } } } } } } } : TRUE

\* CraftState::execute
execute(self, action) ==
  CHOOSE state \in
    { set_available_moves(s, FALSE) : s \in { _execute(self, action) } } : TRUE

\* CraftState::execute_strict
execute_strict(self, action) ==
  CHOOSE state \in
    { set_available_moves(s, TRUE) : s \in { _execute(self, action) } } : TRUE

\* a share that is not capped at the whole bonus
apply_unclamped(bonus, value, target) ==
  IF target = 0 THEN bonus ELSE (bonus * value) \div target

\* the local fn apply of CraftState::score: bonus * min(1, value / target),
\* in fixed point; a zero target divides to NaN or +inf, and 1f32.min of
\* either is 1
apply(bonus, value, target) ==
  IF target = 0 \/ value >= target THEN bonus
  ELSE (bonus * value) \div target

\* CraftState::score
score(self) ==
    apply((20 * ScoreScale) \div 100, self.progress, self.context.progress_target)
  + apply((65 * ScoreScale) \div 100, self.quality, self.context.quality_target)
  + apply((5 * ScoreScale) \div 100, self.durability, self.context.durability_max)
  + apply((5 * ScoreScale) \div 100, self.cp, self.context.cp_max)
  + (((5 * ScoreScale) \div 100) * (self.context.step_max - self.step))
       \div self.context.step_max

\* CraftState::score_no_quality
score_no_quality(self) ==
  (ScoreScale * (self.context.step_max - self.step)) \div self.context.step_max

\* Option<CraftResult>: kind is "None" for None
Result(kind, sc) == [kind |-> kind, score |-> sc]

\* a classification whose Finished score is the best score seen in the search
check_result_from_statistics(self) ==
  IF self.progress >= self.context.progress_target
  THEN Result("Finished", IF self.visits > 0 THEN self.max_score
                          ELSE IF self.context.quality_target > 0
                          THEN score(self) ELSE score_no_quality(self))
  ELSE IF self.durability <= 0 THEN Result("DurabilityFailure", 0)
  ELSE IF self.step >= self.context.step_max THEN Result("MaxStepsFailure", 0)
  ELSE IF self.available_moves = {} THEN Result("InvalidActionFailure", 0)
  ELSE Result("None", 0)

\* a classification that tests the failures before the progress
check_result_failures_first(self) ==
  IF self.durability <= 0 THEN Result("DurabilityFailure", 0)
  ELSE IF self.step >= self.context.step_max THEN Result("MaxStepsFailure", 0)
  ELSE IF self.progress >= self.context.progress_target
  THEN Result("Finished", IF self.context.quality_target > 0
                          THEN score(self) ELSE score_no_quality(self))
  ELSE IF self.available_moves = {} THEN Result("InvalidActionFailure", 0)
  ELSE Result("None", 0)

\* CraftState::check_result
check_result(self) ==
  IF self.progress >= self.context.progress_target
  THEN Result("Finished", IF self.context.quality_target > 0
                          THEN score(self) ELSE score_no_quality(self))
  ELSE IF self.durability <= 0 THEN Result("DurabilityFailure", 0)
  ELSE IF self.step >= self.context.step_max THEN Result("MaxStepsFailure", 0)
  ELSE IF self.available_moves = {} THEN Result("InvalidActionFailure", 0)
  ELSE Result("None", 0)

(***************************************************************************)
(* The craft kernel: every state reachable from new / new_strict by        *)
(* execute, execute_strict and clone_strict, over a set of small crafts.   *)
(***************************************************************************)

\* options.max_steps of the kernel crafts
MaxSteps == 4

Recipe_new(job_level, progress, quality, durability, pmod, qmod, is_expert) ==
  [recipe_level |-> 0, job_level |-> job_level, stars |-> 0,
   progress |-> progress, quality |-> quality, durability |-> durability,
   progress_div |-> 100, progress_mod |-> pmod,
   quality_div |-> 100, quality_mod |-> qmod,
   is_expert |-> is_expert, conditions_flag |-> 15]

CraftOptions_new(max_steps, starting_quality, quality_target, manip, delin) ==
  [max_steps |-> max_steps, starting_quality |-> starting_quality,
   quality_target |-> quality_target, player_is_specialist |-> FALSE,
   use_manipulation |-> manip, use_delineation |-> delin]

KernelContexts ==
  { \* level 90 on a level 80 recipe: TrainedEye is in the pool
    CraftContext_new(Player_new(90, 83, 20, 260),
                     Recipe_new(80, 60, 40, 30, 90, 80, FALSE),
                     CraftOptions_new(MaxSteps, sq, NoneVal, TRUE, FALSE))
      : sq \in {NoneVal, 40, 50} }
  \cup
  { \* level 100 on a level 90 recipe: TrainedEye and QuickInnovation
    CraftContext_new(Player_new(100, 83, 20, 260),
                     Recipe_new(90, 60, 40, 30, 90, 80, FALSE),
                     CraftOptions_new(MaxSteps - 1, 20, NoneVal, FALSE, TRUE)),
    \* level 90 on an expert recipe, and with no quality target
    CraftContext_new(Player_new(90, 83, 20, 260),
                     Recipe_new(80, 60, 40, 30, 90, 80, TRUE),
                     CraftOptions_new(MaxSteps - 1, NoneVal, NoneVal, FALSE, FALSE)),
    CraftContext_new(Player_new(90, 83, 20, 260),
                     Recipe_new(80, 60, 40, 30, 90, 80, FALSE),
                     CraftOptions_new(MaxSteps, NoneVal, 0, FALSE, FALSE)),
    \* level 100 on a level 100 recipe, with delineations
    CraftContext_new(Player_new(100, 83, 20, 96),
                     Recipe_new(100, 40, 60, 40, 90, 80, FALSE),
                     CraftOptions_new(MaxSteps - 1, 25, NoneVal, TRUE, TRUE)),
    \* the same with one more step: QuickInnovation can follow Manipulation
    \* and an action that costs durability
    CraftContext_new(Player_new(100, 83, 20, 96),
                     Recipe_new(100, 40, 60, 40, 90, 80, FALSE),
                     CraftOptions_new(MaxSteps, 25, NoneVal, TRUE, TRUE)),
    \* a level 10 crafter: no inner quiet
    CraftContext_new(Player_new(10, 83, 20, 100),
                     Recipe_new(10, 20, 60, 20, 90, 80, FALSE),
                     CraftOptions_new(2 * MaxSteps, NoneVal, NoneVal, FALSE, FALSE)),
    \* a level 90 crafter with 50 CP: Observe and AdvancedTouch are in the
    \* pool, and the CP after Observe is between the two prices of AdvancedTouch
    CraftContext_new(Player_new(90, 83, 20, 50),
                     Recipe_new(90, 60, 40, 30, 90, 80, FALSE),
                     CraftOptions_new(MaxSteps - 1, NoneVal, NoneVal, FALSE, FALSE)) }

vars == << st, op, source, args, sim, actions, iteration, ret >>

\* a local that is not initialised yet
Unset == [unset |-> TRUE]

\* the variables of the Simulator drivers
driver == << args, sim, actions, iteration, ret >>

\* no Simulator driver is running
NoDriver ==
  /\ args = NoneVal /\ sim = Unset
  /\ actions = << >> /\ iteration = 0 /\ ret = << >>

Init ==
  \E context \in KernelContexts :
    \/ st = CraftState_new(context) /\ op = "new" /\ source = "None" /\ NoDriver
    \/ st = new_strict(context) /\ op = "new_strict" /\ source = "None" /\ NoDriver

\* state.execute(&action) on an action of the state's moves
Execute(action) ==
  /\ action \in st.available_moves
  /\ st' = execute(st, action)
  /\ op' = "execute"
  /\ UNCHANGED << source, driver >>

\* state.execute_strict(&action) on an action of the state's moves
ExecuteStrict(action) ==
  /\ action \in st.available_moves
  /\ st' = execute_strict(st, action)
  /\ op' = "execute_strict"
  /\ UNCHANGED << source, driver >>

\* state.clone_strict()
CloneStrict ==
  /\ op # "clone_strict"
  /\ st' = clone_strict(st)
  /\ op' = "clone_strict"
  /\ UNCHANGED << source, driver >>

Next ==
  \/ \E action \in Action : Execute(action)
  \/ \E action \in Action : ExecuteStrict(action)
  \/ CloneStrict

Spec == Init /\ [][Next]_vars

(***************************************************************************)
(* A craft state that is also a node of a search tree: between executions  *)
(* backpropagation changes its statistics.  `source` is the object that    *)
(* execute was called on, as it is after the call.                         *)
(***************************************************************************)

\* the most visits a state collects between two executions
MaxVisits == 2

ScoreSamples == {0, ScoreScale \div 2}

PureContexts ==
  { CraftContext_new(Player_new(10, 83, 20, 100),
                     Recipe_new(10, 20, 60, 20, 90, 80, FALSE),
                     CraftOptions_new(MaxSteps + 2, NoneVal, NoneVal, FALSE, FALSE)),
    CraftContext_new(Player_new(30, 83, 20, 60),
                     Recipe_new(30, 30, 60, 30, 90, 80, FALSE),
                     CraftOptions_new(MaxSteps, NoneVal, NoneVal, FALSE, FALSE)) }

\* Simulator::backpropagate, the update of one node's statistics
backpropagate_node(state, sc) ==
  [state EXCEPT !.visits = @ + 1,
                !.score_sum = @ + sc,
                !.max_score = Max(@, sc)]

PureInit ==
  \E context \in PureContexts :
    /\ st = CraftState_new(context)
    /\ op = "new"
    /\ source = st
    /\ NoDriver

\* let next = state.execute(&action): `state` is borrowed immutably
PureExecute(action) ==
  /\ action \in st.available_moves
  /\ st' = execute(st, action)
  /\ source' = st
  /\ op' = "execute"
  /\ ret' = << >>
  /\ UNCHANGED << args, sim, actions, iteration >>

\* let next = state.execute_strict(&action)
PureExecuteStrict(action) ==
  /\ action \in st.available_moves
  /\ st' = execute_strict(st, action)
  /\ source' = st
  /\ op' = "execute_strict"
  /\ ret' = << >>
  /\ UNCHANGED << args, sim, actions, iteration >>

\* a search iteration's backpropagation passes through the state
PureVisit(sc) ==
  /\ st.visits < MaxVisits
  /\ st' = backpropagate_node(st, sc)
  /\ op' = "backpropagate"
  /\ ret' = << >>
  /\ UNCHANGED << source, args, sim, actions, iteration >>

\* let result = state.check_result(): `state` is borrowed immutably; the
\* value lives until the next operation on the state
PureCheckResult ==
  /\ ret' = << check_result(st) >>
  /\ op' = "check_result"
  /\ UNCHANGED << st, source, args, sim, actions, iteration >>

PureNext ==
  \/ \E action \in Action : PureExecute(action)
  \/ \E action \in Action : PureExecuteStrict(action)
  \/ \E sc \in ScoreSamples : PureVisit(sc)
  \/ PureCheckResult

PureSpec == PureInit /\ [][PureNext]_vars

(***************************************************************************)
(* tree.rs, action_set.rs and the random generator                         *)
(*                                                                         *)
(* Arena indices are 0-based; node i is element i + 1 of the sequence.     *)
(* SmallRng is a fixed deterministic generator: the model keeps that each  *)
(* draw and the generator state after it are functions of the state before *)
(* it, and replaces the 256-bit recurrence by a linear congruence on a     *)
(* byte.  A value used more than once is bound by a one-element set        *)
(* comprehension so that it is computed once.                              *)
(***************************************************************************)

\* Arena::new
Arena_new(initial_value) ==
  << [parent |-> NoneVal, index |-> 0, children |-> << >>, state |-> initial_value] >>

\* Arena::get
get(tree, index) == tree[index + 1]

\* an insert that does not register the new node with its parent
insert_unlinked(tree, parent_index, value) ==
  Append(tree, [parent |-> parent_index, index |-> Len(tree),
                children |-> << >>, state |-> value])

\* Arena::insert: the grown arena; the new node's index is the old length
insert(tree, parent_index, value) ==
  Append([tree EXCEPT ![parent_index + 1].children = Append(@, Len(tree))],
         [parent |-> parent_index, index |-> Len(tree),
          children |-> << >>, state |-> value])

\* EnumIndexing::index
action_index(action) ==
  CHOOSE i \in 0 .. (Len(ACTION_LIST) - 1) : ACTION_LIST[i + 1] = action

\* SmallRng::seed_from_u64
seed_from_u64(seed) == (5 * seed + 3) % 256

\* one step of the generator
rng_next(rng) == (13 * rng + 7) % 256

\* Rng::gen_range(0..n), with the generator after the draw
gen_range(rng, n) ==
  [value |-> (rng_next(rng) \div 8) % n, rng |-> rng_next(rng)]

\* ActionSet::random_index given the draw: the nth set bit from the top
random_index(moves, nth) ==
  CHOOSE action \in moves :
    Cardinality({ other \in moves : action_index(other) > action_index(action) }) = nth

\* ActionSet::sample, ActionSet::pick: the action drawn and the generator after
sample(moves, rng) ==
  CHOOSE r \in
    { [action |-> random_index(moves, g.value), rng |-> g.rng] :
      g \in { gen_range(rng, Cardinality(moves)) } } : TRUE

(***************************************************************************)
(* simulator.rs                                                            *)
(***************************************************************************)

\* the seeds SmallRng::from_entropy().gen() may yield
MaxSeed == 3

Seeds == 0 .. MaxSeed

\* struct SearchOptions; the f32 options are fixed-point like the scores
SearchOptions_new(iterations, rng_seed, threshold, weighting, exploration) ==
  [iterations |-> iterations, rng_seed |-> rng_seed,
   score_storage_threshold |-> threshold,
   max_score_weighting_constant |-> weighting,
   exploration_constant |-> exploration]

\* SearchOptions::default, given the seed drawn from entropy
SearchOptions_default(entropy) ==
  SearchOptions_new(10000, entropy, ScoreScale, ScoreScale \div 10,
                    (15 * ScoreScale) \div 10)

\* Option::or(..).unwrap()
or(option, default) == IF option # NoneVal THEN option ELSE default

\* a constructor that always seeds the generator from entropy
from_state_entropy_seeded(state, options, entropy) ==
  [tree |-> Arena_new(state),
   iterations |-> options.iterations,
   dead_ends_selected |-> 0,
   rng_seed |-> entropy,
   rng |-> seed_from_u64(entropy),
   score_storage_threshold |-> or(options.score_storage_threshold, ScoreScale),
   max_score_weighting_constant |->
     or(options.max_score_weighting_constant, ScoreScale \div 10),
   exploration_constant |->
     or(options.exploration_constant, (15 * ScoreScale) \div 10)]

\* Simulator::from_state, given the seed SearchOptions::default() drew
from_state(state, options, entropy) ==
  [tree |-> Arena_new(state),
   iterations |-> options.iterations,
   dead_ends_selected |-> 0,
   rng_seed |-> or(options.rng_seed, SearchOptions_default(entropy).rng_seed),
   rng |-> seed_from_u64(or(options.rng_seed,
                            SearchOptions_default(entropy).rng_seed)),
   score_storage_threshold |->
     or(options.score_storage_threshold,
        SearchOptions_default(entropy).score_storage_threshold),
   max_score_weighting_constant |->
     or(options.max_score_weighting_constant,
        SearchOptions_default(entropy).max_score_weighting_constant),
   exploration_constant |->
     or(options.exploration_constant,
        SearchOptions_default(entropy).exploration_constant)]

\* Simulator::from_context
from_context(context, options, entropy) ==
  from_state(CraftState_new(context), options, entropy)

\* an unset that leaves the action among the moves of the node
unset_keeps_action(tree, index, action) ==
  [tree EXCEPT ![index + 1].state.available_moves = @ \cup {action}]

\* ActionSet::unset on the moves of the node at index
unset(tree, index, action) ==
  [tree EXCEPT ![index + 1].state.available_moves = @ \ {action}]

\* the body of the for loops of execute_actions / execute_actions_strict:
\* the arena after `action` was taken off the current node's moves, executed
\* and the successor inserted
execute_and_insert(tree, current_index, action, strict) ==
  CHOOSE t \in
    { insert(u, current_index,
             IF strict THEN execute_strict(get(u, current_index).state, action)
             ELSE execute(get(u, current_index).state, action)) :
      u \in { unset(tree, current_index, action) } } : TRUE

\* execute_actions whose loop runs on after an action that is not available
RECURSIVE execute_actions_unchecked(_, _, _, _, _)
execute_actions_unchecked(tree, current_index, list, i, strict) ==
  IF i > Len(list)
  THEN [tree |-> tree, index |-> current_index,
        result |-> check_result(get(tree, current_index).state)]
  ELSE IF check_result(get(tree, current_index).state).kind # "None"
  THEN [tree |-> tree, index |-> current_index,
        result |-> check_result(get(tree, current_index).state)]
  ELSE CHOOSE r \in
         { execute_actions_unchecked(t, Len(t) - 1, list, i + 1, strict) :
           t \in { execute_and_insert(tree, current_index, list[i], strict) } } : TRUE

\* Simulator::execute_actions (strict = FALSE) and execute_actions_strict
\* (strict = TRUE) from action i of the list on: the arena, the index
\* returned and the Option<CraftResult> returned
RECURSIVE execute_actions_from(_, _, _, _, _)
execute_actions_from(tree, current_index, list, i, strict) ==
  IF i > Len(list)
  THEN [tree |-> tree, index |-> current_index,
        result |-> check_result(get(tree, current_index).state)]
  ELSE IF check_result(get(tree, current_index).state).kind # "None"
  THEN [tree |-> tree, index |-> current_index,
        result |-> check_result(get(tree, current_index).state)]
  ELSE IF list[i] \notin get(tree, current_index).state.available_moves
  THEN [tree |-> tree, index |-> current_index,
        result |-> Result("InvalidActionFailure", 0)]
  ELSE CHOOSE r \in
         { execute_actions_from(t, Len(t) - 1, list, i + 1, strict) :
           t \in { execute_and_insert(tree, current_index, list[i], strict) } } : TRUE

\* Simulator::execute_actions
execute_actions(tree, start_index, list) ==
  execute_actions_from(tree, start_index, list, 1, FALSE)

\* Simulator::execute_actions_strict
execute_actions_strict(tree, start_index, list) ==
  execute_actions_from(tree, start_index, list, 1, TRUE)

\* Simulator::simulate: the Simulator it leaves and the pair it returns
simulate(context, list, entropy) ==
  CHOOSE r \in
    { [sim |-> [p.s EXCEPT !.tree = p.e.tree],
       state |-> get(p.e.tree, p.e.index).state,
       result |-> p.e.result] :
      p \in { [s |-> s0, e |-> execute_actions(s0.tree, 0, list)] :
              s0 \in { from_context(context, SearchOptions_default(entropy),
                                    entropy) } } } : TRUE

\* 1000 * ln(n) for the visit counts that occur
ln(n) ==
  << 0, 693, 1099, 1386, 1609, 1792, 1946, 2079, 2197, 2303, 2398, 2485,
     2565, 2639, 2708, 2773 >>[n]

\* f32::sqrt on fixed-point numbers: the integer square root between lo and hi
RECURSIVE sqrt_between(_, _, _)
sqrt_between(n, lo, hi) ==
  IF lo >= hi THEN lo
  ELSE CHOOSE r \in
         { sqrt_between(n, b[1], b[2]) :
           b \in { IF m * m <= n THEN << m, hi >> ELSE << lo, m - 1 >> :
                   m \in { (lo + hi + 1) \div 2 } } } : TRUE

sqrt(n) == sqrt_between(n, 0, 32767)

\* Simulator::eval: the UCB1 score of a node, in ScoreScale units
eval(simulator, state, parent_state) ==
    ( (ScoreScale - simulator.max_score_weighting_constant)
         * (state.score_sum \div state.visits)
      + simulator.max_score_weighting_constant * state.max_score ) \div ScoreScale
  + sqrt( ((simulator.exploration_constant * ln(parent_state.visits))
             \div state.visits) * (ScoreScale \div 1000) )

\* Iterator::max_by: the last of the elements with the greatest key
max_by(keys) ==
  CHOOSE k \in DOMAIN keys :
    /\ \A j \in DOMAIN keys : keys[j] <= keys[k]
    /\ \A j \in DOMAIN keys : j > k => keys[j] < keys[k]

\* Simulator::select
RECURSIVE select(_, _)
select(simulator, current_index) ==
  IF \/ get(simulator.tree, current_index).state.available_moves # {}
     \/ get(simulator.tree, current_index).children = << >>
  THEN current_index
  ELSE CHOOSE r \in
         { select(simulator, node.children[max_by(keys)]) :
           node \in { get(simulator.tree, current_index) },
           keys \in { [ k \in DOMAIN get(simulator.tree, current_index).children |->
                        eval(simulator,
                             get(simulator.tree,
                                 get(simulator.tree, current_index).children[k]).state,
                             get(simulator.tree, current_index).state) ] } } : TRUE

\* the playout loop of expand_and_rollout: the result it breaks with, the
\* actions it pushed and the generator it leaves
RECURSIVE rollout(_, _, _)
rollout(current_state, rng, action_history) ==
  IF check_result(current_state).kind # "None"
  THEN [result |-> check_result(current_state),
        action_history |-> action_history, rng |-> rng]
  ELSE CHOOSE r \in
         { rollout(p.next, p.rng, Append(action_history, p.action)) :
           p \in { [next |-> execute_strict(current_state, d.action),
                    action |-> d.action, rng |-> d.rng] :
                   d \in { sample(current_state.available_moves, rng) } } } : TRUE

\* an end of expand_and_rollout that never stores the path of the playout
store_result_discards_path(simulator, tree, expanded_index, playout) ==
  [sim |-> [simulator EXCEPT !.tree = tree, !.rng = playout.rng],
   index |-> expanded_index, result |-> playout.result]

\* the end of expand_and_rollout: the path of a good enough playout is stored
store_result(simulator, tree, expanded_index, playout) ==
  IF /\ playout.result.kind = "Finished"
     /\ playout.result.score >= simulator.score_storage_threshold
     /\ playout.result.score >= get(tree, 0).state.max_score
  THEN CHOOSE r \in
         { [sim |-> [simulator EXCEPT !.tree = e.tree, !.rng = playout.rng],
            index |-> e.index, result |-> playout.result] :
           e \in { execute_actions_strict(tree, expanded_index,
                                          playout.action_history) } } : TRUE
  ELSE [sim |-> [simulator EXCEPT !.tree = tree, !.rng = playout.rng],
        index |-> expanded_index, result |-> playout.result]

\* Simulator::expand_and_rollout: the Simulator it leaves, and the index and
\* the CraftResult it returns
expand_and_rollout(simulator, initial_index) ==
  IF check_result(get(simulator.tree, initial_index).state).kind # "None"
  THEN [sim |-> simulator, index |-> initial_index,
        result |-> check_result(get(simulator.tree, initial_index).state)]
  ELSE CHOOSE r \in
         { store_result(simulator, x.tree, Len(x.tree) - 1, x.playout) :
           x \in UNION
             { { [tree |-> t,
                  playout |-> rollout(get(t, Len(t) - 1).state, d.rng, << >>)] :
                 t \in { execute_and_insert(simulator.tree, initial_index,
                                            d.action, TRUE) } } :
               d \in { sample(get(simulator.tree, initial_index)
                                .state.available_moves, simulator.rng) } } } : TRUE

\* a backpropagation that stops below the target node
RECURSIVE backpropagate_below_target(_, _, _, _)
backpropagate_below_target(tree, start_index, target_index, sc) ==
  IF start_index = target_index
  THEN tree
  ELSE CHOOSE r \in
         { backpropagate_below_target(t, get(tree, start_index).parent,
                                      target_index, sc) :
           t \in { [tree EXCEPT ![start_index + 1].state =
                      backpropagate_node(@, sc)] } } : TRUE

\* Simulator::backpropagate
RECURSIVE backpropagate(_, _, _, _)
backpropagate(tree, start_index, target_index, sc) ==
  IF start_index = target_index
  THEN [tree EXCEPT ![start_index + 1].state = backpropagate_node(@, sc)]
  ELSE CHOOSE r \in
         { backpropagate(t, get(tree, start_index).parent, target_index, sc) :
           t \in { [tree EXCEPT ![start_index + 1].state =
                      backpropagate_node(@, sc)] } } : TRUE

\* an iteration that backpropagates from the selected node, not from the node
\* the expansion ended in
search_iteration_from_selected(simulator, start_index) ==
  CHOOSE r \in
    { [x.e.sim EXCEPT
         !.dead_ends_selected = IF x.selected_index = x.e.index THEN @ + 1 ELSE @,
         !.tree = backpropagate(x.e.sim.tree, x.selected_index, start_index,
                                IF x.e.result.kind = "Finished"
                                THEN x.e.result.score ELSE 0)] :
      x \in { [selected_index |-> i, e |-> expand_and_rollout(simulator, i)] :
              i \in { select(simulator, start_index) } } } : TRUE

\* one iteration of the loop of Simulator::search
search_iteration(simulator, start_index) ==
  CHOOSE r \in
    { [x.e.sim EXCEPT
         !.dead_ends_selected = IF x.selected_index = x.e.index THEN @ + 1 ELSE @,
         !.tree = backpropagate(x.e.sim.tree, x.e.index, start_index,
                                IF x.e.result.kind = "Finished"
                                THEN x.e.result.score ELSE 0)] :
      x \in { [selected_index |-> i, e |-> expand_and_rollout(simulator, i)] :
              i \in { select(simulator, start_index) } } } : TRUE

\* Simulator::solution from the node at index on
RECURSIVE solution_from(_, _, _)
solution_from(tree, index, list) ==
  IF get(tree, index).children = << >>
  THEN [actions |-> list, state |-> get(tree, index).state]
  ELSE CHOOSE r \in
         { solution_from(tree, next_index,
                         IF get(tree, next_index).state.action # "None"
                         THEN Append(list, get(tree, next_index).state.action)
                         ELSE list) :
           next_index \in
             { get(tree, index).children[
                 max_by([ k \in DOMAIN get(tree, index).children |->
                          get(tree, get(tree, index).children[k]).state.max_score ])] } } : TRUE

\* Simulator::solution
solution(simulator) == solution_from(simulator.tree, 0, << >>)

(***************************************************************************)
(* Calls of Simulator::simulate: every list of at most MaxScript actions   *)
(* of an alphabet on small crafts, and the rotations of the unit tests on  *)
(* the craft of tests::setup_1.                                            *)
(***************************************************************************)

\* the longest list of actions tried exhaustively
MaxScript == 3

ScriptAlphabet ==
  { "BasicSynthesisTraited", "BasicTouch", "StandardTouch", "AdvancedTouch",
    "Observe", "MastersMend", "Reflect" }

Scripts == UNION { [1 .. k -> ScriptAlphabet] : k \in 0 .. MaxScript }

\* tests::setup_1
setup_1 ==
  CraftContext_new(
    Player_new(90, 3304, 3374, 575),
    [recipe_level |-> 560, job_level |-> 90, stars |-> 0,
     progress |-> 3500, quality |-> 7200, durability |-> 80,
     progress_div |-> 130, progress_mod |-> 90,
     quality_div |-> 115, quality_mod |-> 80,
     is_expert |-> FALSE, conditions_flag |-> 15],
    CraftOptions_new(25, NoneVal, NoneVal, TRUE, FALSE))

\* tests::basic_actions
basic_actions == << "BasicTouch", "BasicSynthesis", "MastersMend" >>

\* tests::with_buffs_1
with_buffs_1 == << "Reflect", "Manipulation", "PreparatoryTouch", "WasteNotII" >>

\* tests::trained_finesse_procs
trained_finesse_procs ==
  << "Reflect", "WasteNot", "PreparatoryTouch", "PreparatoryTouch",
     "BasicTouch", "StandardTouch", "PrudentTouch", "PreparatoryTouch" >>

\* the rotations of the unit tests: tests::basic_touch_combo, the same
\* without Innovation, and the three above
TestScripts ==
  { << "Innovation", "BasicTouch", "StandardTouch", "AdvancedTouch",
       "StandardTouch", "AdvancedTouch" >>,
    << "BasicTouch", "StandardTouch", "AdvancedTouch",
       "StandardTouch", "AdvancedTouch" >>,
    basic_actions, with_buffs_1, trained_finesse_procs }

SimContexts ==
  { CraftContext_new(Player_new(90, 83, 20, 100),
                     Recipe_new(80, 20, 400, 30, 90, 80, FALSE),
                     CraftOptions_new(MaxScript + 2, NoneVal, NoneVal, FALSE, FALSE)),
    CraftContext_new(Player_new(90, 83, 20, 60),
                     Recipe_new(90, 60, 400, 30, 90, 80, FALSE),
                     CraftOptions_new(MaxScript, NoneVal, NoneVal, FALSE, FALSE)) }

SimInit ==
  /\ \/ \E context \in SimContexts, list \in Scripts :
          args = [context |-> context, actions |-> list]
     \/ \E list \in TestScripts :
          args = [context |-> setup_1, actions |-> list]
  /\ op = "call"
  /\ st = Unset /\ source = "None"
  /\ sim = Unset /\ actions = << >> /\ iteration = 0 /\ ret = << >>

\* let (state, result) = Simulator::simulate(context, actions)
Simulate(entropy) ==
  /\ op = "call"
  /\ \E r \in { simulate(args.context, args.actions, entropy) } :
       /\ sim' = r.sim
       /\ ret' = << [state |-> r.state, result |-> r.result] >>
  /\ op' = "simulate"
  /\ UNCHANGED << st, source, args, actions, iteration >>

SimNext == \E entropy \in Seeds : Simulate(entropy)

SimSpec == SimInit /\ [][SimNext]_vars

(***************************************************************************)
(* Calls of Simulator::search_oneshot and Simulator::search_stepwise on    *)
(* small crafts.  A call is a sequence of steps: the construction of the   *)
(* Simulator, the iterations of Simulator::search one by one, and the      *)
(* code after the search.  search_oneshot is called Runs times in a row    *)
(* with the same arguments.                                                *)
(***************************************************************************)

\* the largest SearchOptions::iterations
MaxIterations == 4

\* the calls of search_oneshot made with the same arguments
Runs == 2

SearchContexts ==
  { \* a level 10 crafter: BasicSynthesis, BasicTouch, MastersMend
    CraftContext_new(Player_new(10, 83, 20, 100),
                     Recipe_new(10, 18, 60, 40, 90, 80, FALSE),
                     CraftOptions_new(6, NoneVal, NoneVal, FALSE, FALSE)),
    \* a level 20 crafter with 80 CP: Observe, WasteNot, Veneration,
    \* StandardTouch as well, and no MastersMend
    CraftContext_new(Player_new(20, 83, 20, 80),
                     Recipe_new(20, 18, 60, 30, 90, 80, FALSE),
                     CraftOptions_new(5, NoneVal, NoneVal, FALSE, FALSE)),
    \* a level 100 crafter with 5 CP and delineations, on a craft that one
    \* synthesis finishes: BasicSynthesisTraited, QuickInnovation,
    \* TrainedPerfection
    CraftContext_new(Player_new(100, 83, 20, 5),
                     Recipe_new(100, 10, 60, 40, 90, 80, FALSE),
                     CraftOptions_new(2, 30, NoneVal, FALSE, TRUE)),
    \* the same crafter without delineations and with quality_target 0: the
    \* synthesis finishes on the last step, with a score of 0
    CraftContext_new(Player_new(100, 83, 20, 5),
                     Recipe_new(100, 10, 60, 40, 90, 80, FALSE),
                     CraftOptions_new(2, NoneVal, 0, FALSE, FALSE)) }

SearchHistories ==
  { << >>, << "BasicTouch" >>, << "BasicTouch", "BasicSynthesis" >>,
    << "BasicSynthesis", "BasicSynthesis" >>, << "Reflect" >> }

SearchOptionsSet ==
  { SearchOptions_new(iterations, rng_seed, threshold, NoneVal, NoneVal) :
      iterations \in 0 .. MaxIterations,
      rng_seed \in {NoneVal} \cup Seeds,
      threshold \in {NoneVal, 0} }

SearchInit ==
  /\ \E context \in SearchContexts, action_history \in SearchHistories,
        options \in SearchOptionsSet :
       args = [context |-> context, action_history |-> action_history,
               search_options |-> options]
  /\ op = "call"
  /\ st = Unset /\ source = "None"
  /\ sim = Unset /\ actions = << >> /\ iteration = 0 /\ ret = << >>

\* for _ in 0..self.iterations { ... } of Simulator::search, one iteration
SearchIteration ==
  /\ op = "search"
  /\ iteration < sim.iterations
  /\ sim' = search_iteration(sim, 0)
  /\ iteration' = iteration + 1
  /\ UNCHANGED << st, op, source, args, actions, ret >>

\* search_oneshot: let mut sim = Self::from_context(context, search_options)
OneshotBegin(entropy) ==
  /\ op = "call"
  /\ sim' = from_context(args.context, args.search_options, entropy)
  /\ iteration' = 0
  /\ op' = "search"
  /\ UNCHANGED << st, source, args, actions, ret >>

\* search_oneshot: the code after the loop of sim.search(0)
OneshotReturn ==
  /\ op = "search"
  /\ iteration >= sim.iterations
  /\ \E r \in { solution(sim) } :
       ret' = Append(ret, [actions |-> args.action_history \o r.actions,
                           state |-> r.state])
  /\ op' = IF Len(ret) + 1 < Runs THEN "call" ELSE "done"
  /\ UNCHANGED << st, source, args, sim, actions, iteration >>

OneshotNext ==
  \/ \E entropy \in Seeds : OneshotBegin(entropy)
  \/ SearchIteration
  \/ OneshotReturn

OneshotSpec == SearchInit /\ [][OneshotNext]_vars

\* options that keep the threshold the caller passed
stepwise_options_keeps_threshold(search_options) == search_options

\* search_stepwise: SearchOptions { score_storage_threshold: None, ..search_options }
stepwise_options(search_options) ==
  [search_options EXCEPT !.score_storage_threshold = NoneVal]

\* search_stepwise up to the loop: the history is simulated, and the call
\* returns if that classifies the state
StepwiseBegin(entropy) ==
  /\ op = "call"
  /\ \E r \in { simulate(args.context, args.action_history, entropy) } :
       IF r.result.kind # "None"
       THEN /\ ret' = << [actions |-> args.action_history, state |-> r.state] >>
            /\ op' = "done"
            /\ UNCHANGED << st, actions >>
       ELSE /\ st' = clone_strict(r.state)
            /\ actions' = args.action_history
            /\ op' = "loop"
            /\ UNCHANGED ret
  /\ UNCHANGED << source, args, sim, iteration >>

\* while state.check_result().is_none() { let mut sim = Self::from_state(..) }
\* and the return after the loop
StepwiseLoop(entropy) ==
  /\ op = "loop"
  /\ IF check_result(st).kind = "None"
     THEN /\ sim' = from_state(st, stepwise_options(args.search_options), entropy)
          /\ iteration' = 0
          /\ op' = "search"
          /\ UNCHANGED ret
     ELSE /\ ret' = << [actions |-> actions, state |-> st] >>
          /\ op' = "done"
          /\ UNCHANGED << sim, iteration >>
  /\ UNCHANGED << st, source, args, actions >>

\* a loop body that commits the last action of the solution
StepwiseChoose_commits_last ==
  /\ op = "search"
  /\ iteration >= sim.iterations
  /\ \E r \in { solution(sim) } :
       IF r.state.max_score >= ScoreScale
       THEN /\ ret' = << [actions |-> actions \o r.actions, state |-> r.state] >>
            /\ op' = "done"
            /\ UNCHANGED << st, actions >>
       ELSE IF r.actions = << >>
       THEN /\ op' = "panic"
            /\ UNCHANGED << st, actions, ret >>
       ELSE /\ st' = execute_strict(st, r.actions[Len(r.actions)])
            /\ actions' = Append(actions, r.actions[Len(r.actions)])
            /\ op' = "loop"
            /\ UNCHANGED ret
  /\ UNCHANGED << source, args, sim, iteration >>

\* the loop body after sim.search(0): the solution is extracted; the call
\* returns it if its score is 1.0, and else commits its first action
\* (solution_actions[0] panics on an empty solution)
StepwiseChoose ==
  /\ op = "search"
  /\ iteration >= sim.iterations
  /\ \E r \in { solution(sim) } :
       IF r.state.max_score >= ScoreScale
       THEN /\ ret' = << [actions |-> actions \o r.actions, state |-> r.state] >>
            /\ op' = "done"
            /\ UNCHANGED << st, actions >>
       ELSE IF r.actions = << >>
       THEN /\ op' = "panic"
            /\ UNCHANGED << st, actions, ret >>
       ELSE /\ st' = execute_strict(st, r.actions[1])
            /\ actions' = Append(actions, r.actions[1])
            /\ op' = "loop"
            /\ UNCHANGED ret
  /\ UNCHANGED << source, args, sim, iteration >>

StepwiseNext ==
  \/ \E entropy \in Seeds : StepwiseBegin(entropy)
  \/ \E entropy \in Seeds : StepwiseLoop(entropy)
  \/ SearchIteration
  \/ StepwiseChoose

StepwiseSpec == SearchInit /\ [][StepwiseNext]_vars

\* search_stepwise is a sequential function: it keeps running until it returns
StepwiseFairSpec == StepwiseSpec /\ WF_vars(StepwiseNext)

(***************************************************************************)
(* search_stepwise with an action_callback.  `source` is the list of the   *)
(* actions the callback has been called with.                              *)
(***************************************************************************)

CallbackInit ==
  /\ \E context \in SearchContexts, action_history \in SearchHistories,
        options \in SearchOptionsSet :
       args = [context |-> context, action_history |-> action_history,
               search_options |-> options]
  /\ op = "call"
  /\ st = Unset /\ source = << >>
  /\ sim = Unset /\ actions = << >> /\ iteration = 0 /\ ret = << >>

\* a callback that is not called
action_callback_skipped(calls, chosen_action) == calls

\* if let Some(action_callback) = action_callback { action_callback(..) }
action_callback(calls, chosen_action) == Append(calls, chosen_action)

\* the loop body after sim.search(0) when a callback is supplied: as
\* StepwiseChoose, and the callback is called with the action it commits
StepwiseChooseNotify ==
  /\ op = "search"
  /\ iteration >= sim.iterations
  /\ \E r \in { solution(sim) } :
       IF r.state.max_score >= ScoreScale
       THEN /\ ret' = << [actions |-> actions \o r.actions, state |-> r.state] >>
            /\ op' = "done"
            /\ UNCHANGED << st, actions, source >>
       ELSE IF r.actions = << >>
       THEN /\ op' = "panic"
            /\ UNCHANGED << st, actions, ret, source >>
       ELSE /\ st' = execute_strict(st, r.actions[1])
            /\ actions' = Append(actions, r.actions[1])
            /\ source' = action_callback(source, r.actions[1])
            /\ op' = "loop"
            /\ UNCHANGED ret
  /\ UNCHANGED << args, sim, iteration >>

CallbackNext ==
  \/ \E entropy \in Seeds : StepwiseBegin(entropy)
  \/ \E entropy \in Seeds : StepwiseLoop(entropy)
  \/ SearchIteration
  \/ StepwiseChooseNotify

CallbackSpec == CallbackInit /\ [][CallbackNext]_vars

(***************************************************************************)
(* Properties of the craft kernel                                          *)
(***************************************************************************)

Terminal(state) ==
  \/ state.progress >= state.context.progress_target
  \/ state.step >= state.context.step_max
  \/ state.durability <= 0

StrictOps == {"new_strict", "execute_strict", "clone_strict"}

\* C1: every reachable state for which check_result() is None has
\* 0 <= progress < progress_target, 0 < durability <= durability_max,
\* 0 <= cp <= cp_max, step < step_max, inner_quiet <= 10 and
\* available_moves a subset of context.action_pool.
C1_NonTerminalInvariant ==
  check_result(st).kind = "None" =>
    /\ 0 <= st.progress /\ st.progress < st.context.progress_target
    /\ 0 < st.durability /\ st.durability <= st.context.durability_max
    /\ 0 <= st.cp /\ st.cp <= st.context.cp_max
    /\ st.step < st.context.step_max
    /\ st.buffs.inner_quiet <= 10
    /\ st.available_moves \subseteq st.context.action_pool

\* a non-terminal state three actions into a craft, having spent CP
C1_Witness ==
  /\ check_result(st).kind = "None"
  /\ st.step = 4
  /\ st.cp < 18
  /\ op \in {"execute", "execute_strict"}

\* C3: a terminal state (progress >= progress_target, step >= step_max or
\* durability <= 0) produced by new, new_strict, clone_strict, execute or
\* execute_strict has an empty available_moves set.
C3_TerminalHasNoMoves ==
  Terminal(st) => st.available_moves = {}

\* a state at the step limit, not finished, durability left, made by execute
C3_Witness ==
  /\ st.step >= st.context.step_max
  /\ st.progress < st.context.progress_target
  /\ st.durability > 0
  /\ op = "execute"

\* the state's fields as _new and _execute hand them to set_available_moves
NoMoves(state) == [state EXCEPT !.available_moves = {}]

\* C4: on the game fields of every reachable state, the strict move set is a
\* subset of the non-strict move set.
C4_StrictSubsetOfNonStrict ==
  set_available_moves(NoMoves(st), TRUE).available_moves
    \subseteq set_available_moves(NoMoves(st), FALSE).available_moves

\* a state where the strict set is a proper, non-empty subset of the
\* non-strict set, after Observe
C4_Witness ==
  /\ st.previous_combo_action = "Observe"
  /\ set_available_moves(NoMoves(st), TRUE).available_moves = {"AdvancedTouch"}
  /\ "BasicTouch" \in set_available_moves(NoMoves(st), FALSE).available_moves

TrainedEyeForced(state) ==
  /\ state.step = 1
  /\ "TrainedEye" \in state.context.action_pool
  /\ state.context.quality_target > 0
  /\ ~state.context.is_expert

\* C10 as stated: in strict mode, at step 1 with TrainedEye in the pool, a
\* positive quality target and a non-expert recipe, for any starting quality
\* the moves are exactly {TrainedEye}.
C10_Original ==
  (op \in StrictOps /\ TrainedEyeForced(st)) =>
    st.available_moves = {"TrainedEye"}

\* C10 amended: in that case, for a non-terminal state, the moves are exactly
\* {TrainedEye} when quality < quality_target and empty when
\* quality >= quality_target.
C10_TrainedEyeForcedBelowTarget ==
  (op \in StrictOps /\ TrainedEyeForced(st) /\ ~Terminal(st)) =>
    st.available_moves =
      IF st.quality < st.context.quality_target THEN {"TrainedEye"} ELSE {}

\* a strict step-1 state made by executing QuickInnovation, TrainedEye forced
C10_Witness ==
  /\ op = "execute_strict"
  /\ TrainedEyeForced(st)
  /\ st.action = "QuickInnovation"
  /\ st.available_moves = {"TrainedEye"}

ZeroStats(state) == [state EXCEPT !.score_sum = 0, !.max_score = 0, !.visits = 0]

\* C2: execute and execute_strict leave the state they are called on as it
\* was, and the successor is the one the same action yields from the state
\* with zeroed MCTS statistics: it agrees on every field, and its score_sum,
\* max_score and visits are zero whatever the source's statistics were.
C2_ExecuteIsPure ==
  [][ op' \in {"execute", "execute_strict"} =>
        /\ source' = st
        /\ st' = IF op' = "execute"
                 THEN execute(ZeroStats(st), st'.action)
                 ELSE execute_strict(ZeroStats(st), st'.action)
        /\ st'.score_sum = 0 /\ st'.max_score = 0 /\ st'.visits = 0 ]_vars

\* a successor of a state that had been visited and scored
C2_Witness ==
  /\ op = "execute_strict"
  /\ source.visits = MaxVisits
  /\ source.max_score > 0
  /\ st.visits = 0
  /\ st.step = 3

(***************************************************************************)
(* Properties of Simulator::simulate                                       *)
(***************************************************************************)

\* the state after the first n actions of the list, each executed in
\* non-strict mode from a fresh craft state
RECURSIVE Replay(_, _, _)
Replay(context, list, n) ==
  IF n = 0 THEN CraftState_new(context)
  ELSE CHOOSE s \in { execute(p, list[n]) : p \in { Replay(context, list, n - 1) } } : TRUE

\* the first n actions can be executed one after the other: each is taken in
\* a state that is not classified and has it among its moves
LegalPrefix(context, list, n) ==
  \A i \in 1 .. n :
    \E p \in { Replay(context, list, i - 1) } :
      check_result(p).kind = "None" /\ list[i] \in p.available_moves

\* C8: simulate executes the actions in order in non-strict mode.  It stops
\* at the first action that is not among the current state's moves and
\* returns InvalidActionFailure with the state the legal prefix reached; it
\* stops at a classified state reached before the list is exhausted and
\* returns that state with its classification; otherwise it returns the
\* state after the whole list with check_result() of that state.
C8_SimulateStopsAtFirstFailure ==
  op = "simulate" =>
    \E n \in 0 .. Len(args.actions) :
      \E p \in { Replay(args.context, args.actions, n) } :
        /\ LegalPrefix(args.context, args.actions, n)
        /\ ret[1].state = p
        /\ IF n = Len(args.actions) \/ check_result(p).kind # "None"
           THEN ret[1].result = check_result(p)
           ELSE /\ args.actions[n + 1] \notin p.available_moves
                /\ ret[1].result = Result("InvalidActionFailure", 0)

\* a list of three actions whose second action is rejected by a state that
\* has other moves
C8_Witness ==
  /\ op = "simulate"
  /\ args.context \in SimContexts
  /\ Len(args.actions) = 3
  /\ ret[1].result.kind = "InvalidActionFailure"
  /\ ret[1].state.step = 2
  /\ ret[1].state.available_moves # {}

\* the CP an action is charged when executed after a state whose
\* previous_combo_action is prev
Charge(prev, action) ==
  IF action = "StandardTouch" /\ prev = "BasicTouch" THEN 18
  ELSE IF action = "AdvancedTouch" /\ prev \in {"StandardTouch", "Observe"} THEN 18
  ELSE Max(attributes(action).cp_cost, 0)

\* the CP charged along the path from the root to the node at index
RECURSIVE Charges(_, _)
Charges(tree, index) ==
  IF get(tree, index).parent = NoneVal THEN << >>
  ELSE Append(Charges(tree, get(tree, index).parent),
              get(tree, get(tree, index).parent).state.cp - get(tree, index).state.cp)

\* C9: an executed action is charged 18 CP if it is StandardTouch and
\* previous_combo_action is BasicTouch, or AdvancedTouch and
\* previous_combo_action is StandardTouch or Observe, and its base cost
\* otherwise; previous_combo_action is StandardTouch only right after a
\* StandardTouch that followed BasicTouch; so BasicTouch, StandardTouch,
\* AdvancedTouch, StandardTouch, AdvancedTouch are charged 18, 18, 18, 32, 46.
C9_ComboCpCharges ==
  op = "simulate" =>
    /\ \A i \in 1 .. (Len(sim.tree) - 1) :
         \E child \in { get(sim.tree, i).state },
            parent \in { get(sim.tree, get(sim.tree, i).parent).state } :
           /\ parent.cp - child.cp = Charge(parent.previous_combo_action, child.action)
           /\ child.previous_combo_action = "StandardTouch" =>
                child.action = "StandardTouch" /\ parent.action = "BasicTouch"
    /\ args.actions = << "BasicTouch", "StandardTouch", "AdvancedTouch",
                         "StandardTouch", "AdvancedTouch" >> =>
         Charges(sim.tree, Len(sim.tree) - 1) = << 18, 18, 18, 32, 46 >>

\* the five touches of the combo rotation, all executed
C9_Witness ==
  /\ op = "simulate"
  /\ args.actions = << "BasicTouch", "StandardTouch", "AdvancedTouch",
                       "StandardTouch", "AdvancedTouch" >>
  /\ Len(sim.tree) = 6
  /\ ret[1].state.cp = 575 - 132

(***************************************************************************)
(* Properties of Simulator::search_oneshot and Simulator::search_stepwise  *)
(***************************************************************************)

\* C5: calls of search_oneshot with the same context, history, iteration
\* count and the same Some(rng_seed) return the same action list and final
\* states that agree on every field.
C5_SameSeedSameResult ==
  args.search_options.rng_seed # NoneVal =>
    \A i, j \in 1 .. Len(ret) : ret[i] = ret[j]

\* two completed seeded runs of a search that expanded the tree
C5_Witness ==
  /\ Len(ret) = 2
  /\ args.search_options.rng_seed # NoneVal
  /\ args.search_options.iterations >= 3
  /\ Len(sim.tree) > 3
  /\ Len(ret[2].actions) > Len(args.action_history) + 1

\* a craft state without its moves and its search statistics
Core(state) ==
  [state EXCEPT !.available_moves = {}, !.score_sum = 0,
                !.max_score = 0, !.visits = 0]

\* C6, as stated: the tree of search_oneshot is rooted at the state the
\* non-strict replay of the history reaches, with strict moves, and for a
\* legal history the final state returned is the one that executing the
\* returned list history ++ solution from the initial state reaches.
C6_Original ==
  ( /\ op \in {"call", "done"}
    /\ Len(ret) >= 1
    /\ LegalPrefix(args.context, args.action_history, Len(args.action_history)) ) =>
    \E replayed \in { Replay(args.context, args.action_history,
                             Len(args.action_history)) } :
      /\ Core(get(sim.tree, 0).state) = Core(replayed)
      /\ get(sim.tree, 0).state.available_moves
           \subseteq clone_strict(replayed).available_moves
      /\ \A k \in 1 .. Len(ret) :
           Core(ret[k].state)
             = Core(Replay(args.context, ret[k].actions, Len(ret[k].actions)))

\* the state after actions from + 1 .. n of the list, each executed in strict
\* mode, from the state start
RECURSIVE ReplayStrict(_, _, _, _)
ReplayStrict(start, list, from, n) ==
  IF n <= from THEN start
  ELSE CHOOSE s \in
         { execute_strict(p, list[n]) :
           p \in { ReplayStrict(start, list, from, n - 1) } } : TRUE

\* the non-strict replay of the history executes all of it and ends in a
\* state that is not classified
NonTerminalReplay ==
  /\ LegalPrefix(args.context, args.action_history, Len(args.action_history))
  /\ check_result(Replay(args.context, args.action_history,
                         Len(args.action_history))).kind = "None"

\* C7: with iterations >= 1 and a history whose non-strict replay is not
\* terminal, search_stepwise terminates; each round runs a fresh search
\* rooted at the current state and appends exactly the first action of the
\* solution extracted from it; the list returned is the history followed by
\* the appended actions, and the state returned is the strict execution of
\* the appended actions from the state after the history, and is classified.
C7_StepwiseTerminates ==
  /\ [][ /\ (op = "loop" /\ op' = "search") =>
              sim'.tree = Arena_new(st)
         /\ (op = "search" /\ op' = "loop") =>
              /\ Core(get(sim.tree, 0).state) = Core(st)
              /\ actions' = Append(actions, solution(sim).actions[1])
              /\ st' = execute_strict(st, solution(sim).actions[1]) ]_vars
  /\ (op = "loop" /\ args.search_options.iterations >= 1) ~> (op = "done")
  /\ []( ( /\ op = "done"
           /\ args.search_options.iterations >= 1
           /\ NonTerminalReplay ) =>
         /\ Len(ret[1].actions) >= Len(args.action_history)
         /\ SubSeq(ret[1].actions, 1, Len(args.action_history)) = args.action_history
         /\ ret[1].state =
              ReplayStrict(clone_strict(Replay(args.context, args.action_history,
                                               Len(args.action_history))),
                           ret[1].actions, Len(args.action_history),
                           Len(ret[1].actions))
         /\ check_result(ret[1].state).kind # "None" )

\* a call on a history of one action that committed three more and finished
C7_Witness ==
  /\ op = "done"
  /\ args.search_options.iterations >= 1
  /\ args.action_history = << "BasicTouch" >>
  /\ Len(ret[1].actions) = 4
  /\ check_result(ret[1].state).kind = "Finished"

(***************************************************************************)
(* The rotations of the unit tests on the reference craft                  *)
(***************************************************************************)

\* C11, as stated: on the reference craft simulate of BasicTouch,
\* BasicSynthesis, MastersMend ends with progress 276, quality 262,
\* durability 80 and cp 469.
C11_Original ==
  (op = "simulate" /\ args.context = setup_1 /\ args.actions = basic_actions) =>
    /\ ret[1].state.progress = 276
    /\ ret[1].state.quality = 262
    /\ ret[1].state.durability = 80
    /\ ret[1].state.cp = 469

\* C12, as stated: on the reference craft with Manipulation permitted,
\* simulate of Reflect, Manipulation, PreparatoryTouch, WasteNotII ends with
\* progress 0, quality 890, durability 60 and cp 335.
C12_Original ==
  (op = "simulate" /\ args.context = setup_1 /\ args.actions = with_buffs_1) =>
    /\ ret[1].state.progress = 0
    /\ ret[1].state.quality = 890
    /\ ret[1].state.durability = 60
    /\ ret[1].state.cp = 335

\* the inner quiet of the successor `next` of `state`
InnerQuietLaw(state, next) ==
  next.buffs.inner_quiet =
    IF \/ attributes(next.action).quality_efficiency = NoneVal
       \/ state.context.player_job_level < 11
    THEN state.buffs.inner_quiet
    ELSE IF next.action = "ByregotsBlessing" THEN 0
    ELSE IF \/ next.action \in {"Reflect", "PreparatoryTouch"}
            \/ next.action = "RefinedTouch"
               /\ state.previous_combo_action = "BasicTouch"
    THEN Min(state.buffs.inner_quiet + 2, 10)
    ELSE Min(state.buffs.inner_quiet + 1, 10)

\* C13: executing an action with quality efficiency at player_job_level >= 11
\* sets inner_quiet to 0 for ByregotsBlessing, to min(inner_quiet + 2, 10)
\* for Reflect, PreparatoryTouch and RefinedTouch after BasicTouch, and to
\* min(inner_quiet + 1, 10) for any other quality action; other actions, and
\* any action below level 11, leave it alone.  So the rotation of
\* tests::trained_finesse_procs is legal on the reference craft, obeys the
\* law at each action, and ends with inner_quiet 10 and TrainedFinesse
\* among the moves.
C13_InnerQuietLaw ==
  /\ [][ op' \in {"execute", "execute_strict"} => InnerQuietLaw(st, st') ]_vars
  /\ []( op \in {"new", "new_strict"} =>
           /\ LegalPrefix(setup_1, trained_finesse_procs, Len(trained_finesse_procs))
           /\ \A n \in 1 .. Len(trained_finesse_procs) :
                InnerQuietLaw(Replay(setup_1, trained_finesse_procs, n - 1),
                              Replay(setup_1, trained_finesse_procs, n))
           /\ \E end \in { Replay(setup_1, trained_finesse_procs,
                                  Len(trained_finesse_procs)) } :
                /\ end.buffs.inner_quiet = 10
                /\ "TrainedFinesse" \in end.available_moves )

\* RefinedTouch right after BasicTouch: two stacks on top of one
C13_Witness ==
  /\ op = "execute"
  /\ st.action = "RefinedTouch"
  /\ st.buffs.inner_quiet = 3
  /\ st.step = 3

(***************************************************************************)
(* Properties of the score and of check_result                             *)
(***************************************************************************)

\* bonus * min(1, value / target) in ScoreScale units, for a percentage
Share(percent, value, target) ==
  (((percent * ScoreScale) \div 100) * Min(value, target)) \div target

WithStats(state, visits, sc) ==
  [state EXCEPT !.visits = visits, !.score_sum = visits * sc, !.max_score = sc]

\* C15: check_result() leaves the state as it is, returns the same
\* classification when it is called again, and classifies alike two states
\* that differ only in score_sum, max_score and visits.
C15_CheckResultIsPure ==
  /\ [][ op' = "check_result" =>
           /\ st' = st
           /\ ret' = << check_result(st') >>
           /\ op = "check_result" => ret' = ret ]_vars
  /\ []( \A visits \in 0 .. MaxVisits, sc \in ScoreSamples :
           check_result(WithStats(st, visits, sc)) = check_result(st) )

\* a finished state that the search has visited and scored, classified
C15_Witness ==
  /\ op = "check_result"
  /\ ret[1].kind = "Finished"
  /\ st.visits = MaxVisits
  /\ st.max_score > 0
  /\ st.max_score # ret[1].score

\* the number of actions of a list other than QuickInnovation
Stepping(list) ==
  Cardinality({ i \in 1 .. Len(list) : list[i] # "QuickInnovation" })

\* C16: search_oneshot with an empty history never picks from an empty move
\* set, and returns an action list of length at most step_max, its
\* QuickInnovation included: the step counter starts at 1, so that at most
\* step_max - 1 actions consume a step, and QuickInnovation is used once.
C16_OneshotLengthBound ==
  args.action_history = << >> =>
    /\ op = "search" =>
         \A i \in 1 .. Len(sim.tree) :
           check_result(sim.tree[i].state).kind = "None" =>
             sim.tree[i].state.available_moves # {}
    /\ \A k \in 1 .. Len(ret) :
         /\ Len(ret[k].actions) <= args.context.step_max
         /\ Stepping(ret[k].actions) <= args.context.step_max - 1
         /\ Len(ret[k].actions) <= Stepping(ret[k].actions) + 1

\* a search that returned a finished craft of step_max actions, one of them
\* QuickInnovation
C16_Witness ==
  /\ args.action_history = << >>
  /\ Len(ret) >= 1
  /\ Len(ret[1].actions) = args.context.step_max
  /\ Stepping(ret[1].actions) = args.context.step_max - 1
  /\ ret[1].state.step = args.context.step_max
  /\ check_result(ret[1].state).kind = "Finished"

(***************************************************************************)
(* tree.rs on its own: an arena grown by arbitrary inserts                 *)
(***************************************************************************)

\* the number of nodes an arena of the model grows to
MaxNodes == 5

\* the values stored in the nodes
ArenaValues == {"a", "b"}

\* let mut arena = Arena::new(initial_value)
ArenaInit ==
  /\ \E initial_value \in ArenaValues :
       /\ sim = [tree |-> Arena_new(initial_value)]
       /\ args = [parent_index |-> NoneVal, value |-> initial_value]
  /\ op = "new"
  /\ st = Unset /\ source = "None"
  /\ actions = << >> /\ iteration = 0 /\ ret = << >>

\* arena.insert(parent_index, value): get_mut(parent_index)? returns the
\* error before anything is pushed when the parent is out of range
ArenaInsert(parent_index, value) ==
  /\ Len(sim.tree) < MaxNodes
  /\ args' = [parent_index |-> parent_index, value |-> value]
  /\ op' = "insert"
  /\ IF parent_index < Len(sim.tree)
     THEN /\ sim' = [tree |-> insert(sim.tree, parent_index, value)]
          /\ ret' = << [ok |-> TRUE, index |-> Len(sim.tree)] >>
          /\ iteration' = iteration + 1
     ELSE /\ ret' = << [ok |-> FALSE, index |-> NoneVal] >>
          /\ UNCHANGED << sim, iteration >>
  /\ UNCHANGED << st, source, actions >>

ArenaNext ==
  \E parent_index \in 0 .. MaxNodes, value \in ArenaValues :
    ArenaInsert(parent_index, value)

ArenaSpec == ArenaInit /\ [][ArenaNext]_vars

\* how many times an index occurs in a list of children
Occurrences(children, index) ==
  Cardinality({ k \in 1 .. Len(children) : children[k] = index })

\* C17: after any sequence of inserts with in-range parents the arena is a
\* tree rooted at index 0: insert returns the previous node count as the new
\* index, the new node has the given parent and is appended once to that
\* parent's children, every other node keeps its parent, value and children,
\* every node but the root has a parent of smaller index, and the node count
\* is 1 + the number of inserts.
C17_ArenaIsTree ==
  /\ [][ (op' = "insert" /\ args'.parent_index < Len(sim.tree)) =>
           /\ ret' = << [ok |-> TRUE, index |-> Len(sim.tree)] >>
           /\ Len(sim'.tree) = Len(sim.tree) + 1
           /\ get(sim'.tree, ret'[1].index).parent = args'.parent_index
           /\ get(sim'.tree, ret'[1].index).index = ret'[1].index
           /\ get(sim'.tree, ret'[1].index).state = args'.value
           /\ get(sim'.tree, ret'[1].index).children = << >>
           /\ \A i \in 0 .. Len(sim.tree) - 1 :
                /\ get(sim'.tree, i).parent = get(sim.tree, i).parent
                /\ get(sim'.tree, i).index = get(sim.tree, i).index
                /\ get(sim'.tree, i).state = get(sim.tree, i).state
                /\ get(sim'.tree, i).children =
                     IF i = args'.parent_index
                     THEN Append(get(sim.tree, i).children, ret'[1].index)
                     ELSE get(sim.tree, i).children ]_vars
  /\ []( /\ Len(sim.tree) = 1 + iteration
         /\ get(sim.tree, 0).parent = NoneVal
         /\ \A i \in 0 .. Len(sim.tree) - 1 :
              /\ get(sim.tree, i).index = i
              /\ i > 0 => get(sim.tree, i).parent \in 0 .. i - 1
              /\ \A p \in 0 .. Len(sim.tree) - 1 :
                   Occurrences(get(sim.tree, p).children, i) =
                     IF i > 0 /\ get(sim.tree, i).parent = p THEN 1 ELSE 0 )

\* an arena with a node of two children and a node below a non-root node
C17_Witness ==
  /\ op = "insert"
  /\ ret[1].ok
  /\ \E p \in 0 .. Len(sim.tree) - 1 : Len(get(sim.tree, p).children) >= 2
  /\ \E i \in 0 .. Len(sim.tree) - 1 : get(sim.tree, i).parent > 0
  /\ args.parent_index > 0
  /\ args.parent_index < ret[1].index - 1

(***************************************************************************)
(* action_set.rs on its own: ActionSet(u32), a bit per Action::index()     *)
(***************************************************************************)

\* u32::count_ones; the actions have the indices 0 .. 30
count_ones(bits) ==
  Cardinality({ i \in 0 .. 30 : (bits \div (2 ^ i)) % 2 = 1 })

\* u32::leading_zeros
leading_zeros(bits) ==
  IF bits = 0 THEN 32
  ELSE 31 - (CHOOSE i \in 0 .. 30 : bits \div (2 ^ i) = 1)

\* ActionSet::bit_from_action: 1u32 << action.index()
bit_from_action(action) == 2 ^ action_index(action)

\* ActionSet::set_bit: self.0 |= bit
set_bit(self, bit) ==
  IF (self \div bit) % 2 = 1 THEN self ELSE self + bit

\* a bit operation that flips the bit: self.0 ^= bit
unset_bit_toggle(self, bit) ==
  IF (self \div bit) % 2 = 1 THEN self - bit ELSE self + bit

\* ActionSet::unset_bit: self.0 &= !bit
unset_bit(self, bit) ==
  IF (self \div bit) % 2 = 1 THEN self - bit ELSE self

\* ActionSet::new: Self::default()
ActionSet_new == 0

\* ActionSet::set
ActionSet_set(self, action) == set_bit(self, bit_from_action(action))

\* ActionSet::unset
ActionSet_unset(self, action) == unset_bit(self, bit_from_action(action))

\* ActionSet::contains: (self.0 & bit).count_ones() == 1
ActionSet_contains(self, action) ==
  count_ones(IF (self \div bit_from_action(action)) % 2 = 1
             THEN bit_from_action(action) ELSE 0) = 1

\* ActionSet::len
ActionSet_len(self) == count_ones(self)

\* ActionSet::is_empty
ActionSet_is_empty(self) == self = 0

\* ActionSet::keep, the loop from remaining_bits on: the closure f is the
\* set of the actions it returns true for; the result is the bits left in
\* self and the actions f was called with, in the order of the calls
RECURSIVE keep_loop(_, _, _, _)
keep_loop(self, remaining_bits, f, calls) ==
  IF remaining_bits = 0
  THEN [bits |-> self, calls |-> calls]
  ELSE CHOOSE r \in
         { keep_loop(IF ACTION_LIST[index + 1] \in f
                     THEN self ELSE unset_bit(self, 2 ^ index),
                     unset_bit(remaining_bits, 2 ^ index),
                     f,
                     Append(calls, ACTION_LIST[index + 1])) :
             index \in { 32 - leading_zeros(remaining_bits) - 1 } } : TRUE

\* ActionSet::keep
ActionSet_keep(self, f) == keep_loop(self, self, f, << >>)

\* ActionSet::random_index for the value nth that rng.gen_range(0..self.len())
\* drew: the loop over the remaining bits, from self on; NoneVal stands for
\* the panic after the loop
RECURSIVE ActionSet_random_index(_, _)
ActionSet_random_index(remaining_bits, nth) ==
  IF remaining_bits = 0
  THEN NoneVal
  ELSE IF nth = 0
  THEN 32 - leading_zeros(remaining_bits) - 1
  ELSE ActionSet_random_index(
         unset_bit(remaining_bits, 2 ^ (32 - leading_zeros(remaining_bits) - 1)),
         nth - 1)

\* ActionSet::sample
ActionSet_sample(self, nth) == ACTION_LIST[ActionSet_random_index(self, nth) + 1]

\* a pick that clears the bit of the draw instead of the bit of the index
ActionSet_pick_unsets_draw(self, nth) ==
  [bits |-> unset_bit(self, 2 ^ nth),
   action |-> ACTION_LIST[ActionSet_random_index(self, nth) + 1]]

\* ActionSet::pick: the set left and the action returned
ActionSet_pick(self, nth) ==
  [bits |-> unset_bit(self, 2 ^ ActionSet_random_index(self, nth)),
   action |-> ACTION_LIST[ActionSet_random_index(self, nth) + 1]]

\* the number of actions the sets of the model are built from
MaxMembers == 5

\* the actions of the highest and of the lowest index, and those after the
\* lowest
SetAlphabet ==
  { ACTION_LIST[i + 1] : i \in {30} \cup (0 .. Min(MaxMembers - 2, 29)) }

\* let mut set = ActionSet::new(); `source` is the mathematical set that the
\* calls made so far describe
ActionSetInit ==
  /\ st = ActionSet_new
  /\ source = {}
  /\ op = "new"
  /\ args = [action |-> "None", f |-> {}, nth |-> NoneVal]
  /\ sim = Unset /\ actions = << >> /\ iteration = 0 /\ ret = << >>

\* set.set(action)
SetSet(action) ==
  /\ op # "panic"
  /\ st' = ActionSet_set(st, action)
  /\ source' = source \cup {action}
  /\ op' = "set"
  /\ args' = [action |-> action, f |-> {}, nth |-> NoneVal]
  /\ actions' = << >> /\ ret' = << >>
  /\ UNCHANGED << sim, iteration >>

\* set.unset(action)
SetUnset(action) ==
  /\ op # "panic"
  /\ st' = ActionSet_unset(st, action)
  /\ source' = source \ {action}
  /\ op' = "unset"
  /\ args' = [action |-> action, f |-> {}, nth |-> NoneVal]
  /\ actions' = << >> /\ ret' = << >>
  /\ UNCHANGED << sim, iteration >>

\* set.keep(|action| f.contains(action)); `actions` records the calls of f
SetKeep(f) ==
  /\ op # "panic"
  /\ \E r \in { ActionSet_keep(st, f) } :
       /\ st' = r.bits
       /\ actions' = r.calls
  /\ source' = source \cap f
  /\ op' = "keep"
  /\ args' = [action |-> "None", f |-> f, nth |-> NoneVal]
  /\ ret' = << >>
  /\ UNCHANGED << sim, iteration >>

\* set.sample(&mut rng), where gen_range draws nth; gen_range panics on the
\* empty range 0..0
SetSample ==
  /\ op # "panic"
  /\ IF ActionSet_len(st) = 0
     THEN /\ op' = "panic"
          /\ args' = [action |-> "None", f |-> {}, nth |-> NoneVal]
          /\ ret' = << >>
     ELSE \E nth \in 0 .. ActionSet_len(st) - 1 :
            /\ op' = "sample"
            /\ args' = [action |-> "None", f |-> {}, nth |-> nth]
            /\ ret' = << ActionSet_sample(st, nth) >>
  /\ actions' = << >>
  /\ UNCHANGED << st, source, sim, iteration >>

\* set.pick(&mut rng)
SetPick ==
  /\ op # "panic"
  /\ IF ActionSet_len(st) = 0
     THEN /\ op' = "panic"
          /\ args' = [action |-> "None", f |-> {}, nth |-> NoneVal]
          /\ ret' = << >>
          /\ UNCHANGED << st, source >>
     ELSE \E nth \in 0 .. ActionSet_len(st) - 1 :
            \E r \in { ActionSet_pick(st, nth) } :
              /\ op' = "pick"
              /\ args' = [action |-> "None", f |-> {}, nth |-> nth]
              /\ st' = r.bits
              /\ source' = source \ {r.action}
              /\ ret' = << r.action >>
  /\ actions' = << >>
  /\ UNCHANGED << sim, iteration >>

ActionSetNext ==
  \/ \E action \in SetAlphabet : SetSet(action)
  \/ \E action \in SetAlphabet : SetUnset(action)
  \/ \E f \in SUBSET SetAlphabet : SetKeep(f)
  \/ SetSample
  \/ SetPick

ActionSetSpec == ActionSetInit /\ [][ActionSetNext]_vars

\* the elements of a sequence
Range(seq) == { seq[i] : i \in 1 .. Len(seq) }

\* C18: under any sequence of set, unset and keep the ActionSet is the
\* mathematical set of the actions set and not since unset or filtered:
\* contains, len and is_empty agree with that set, set and unset are
\* idempotent, and keep(f) leaves the former members for which f is true and
\* calls f on the members only, once each.
C18_ActionSetIsSet ==
  /\ []( /\ \A a \in Action : ActionSet_contains(st, a) <=> a \in source
         /\ ActionSet_len(st) = Cardinality(source)
         /\ ActionSet_is_empty(st) <=> ActionSet_len(st) = 0 )
  /\ [][ /\ op' = "set" =>
              /\ ActionSet_set(st', args'.action) = st'
              /\ source' = source \cup {args'.action}
         /\ op' = "unset" =>
              /\ ActionSet_unset(st', args'.action) = st'
              /\ source' = source \ {args'.action}
         /\ op' = "keep" =>
              /\ source' = { a \in source : a \in args'.f }
              /\ Range(actions') = source
              /\ Len(actions') = Cardinality(source) ]_vars

\* a keep that removed some members and kept others, the action of the
\* highest index among them, under a closure true for non-members as well
C18_Witness ==
  /\ op = "keep"
  /\ Len(actions) >= 3
  /\ Cardinality(source) = 2
  /\ "TrainedPerfection" \in source
  /\ Cardinality(args.f) >= 3

\* C19: for a set of n > 0 members random_index maps the draws 0 .. n-1
\* one-to-one onto the indices of the members (the nth member from the
\* highest index down); sample leaves the set as it is and returns a member;
\* pick returns a member and removes exactly that one; on the empty set
\* sample and pick panic.
C19_RandomIndexIsBijection ==
  /\ []( /\ { ActionSet_random_index(st, nth) : nth \in 0 .. ActionSet_len(st) - 1 }
              = { action_index(a) : a \in source }
         /\ \A nth \in 0 .. ActionSet_len(st) - 1 :
              ActionSet_sample(st, nth) = random_index(source, nth)
         /\ \A m, n \in 0 .. ActionSet_len(st) - 1 :
              m < n => ActionSet_random_index(st, m) > ActionSet_random_index(st, n)
         /\ op = "panic" => ActionSet_is_empty(st) )
  /\ [][ /\ op' = "sample" =>
              /\ ~ ActionSet_is_empty(st)
              /\ st' = st
              /\ ActionSet_contains(st, ret'[1])
         /\ op' = "pick" =>
              /\ ~ ActionSet_is_empty(st)
              /\ ActionSet_contains(st, ret'[1])
              /\ ActionSet_len(st') = ActionSet_len(st) - 1
              /\ \A a \in Action :
                   ActionSet_contains(st', a) <=>
                     (ActionSet_contains(st, a) /\ a # ret'[1]) ]_vars

\* a pick, by a draw that is not the first, of a member between two others
C19_Witness ==
  /\ op = "pick"
  /\ args.nth = 1
  /\ ret[1] = "BasicTouch"
  /\ source = {"TrainedPerfection", "BasicSynthesis"}

(***************************************************************************)
(* tri_objective_pareto_set.rs: the maxima of a set of points in three     *)
(* dimensions.  An OrderedFloat<f32> coordinate is an integer of the same  *)
(* order; the BTreeMap is a function from its keys to the item lists.      *)
(***************************************************************************)

\* the number of items of an input vector
MaxItems == 3

\* the coordinates of the items
Floats == {0, 1, 2}

\* ParetoItem::new(index, [x, y, z])
ParetoItem_new(index, floats) ==
  [index |-> index, x |-> floats[1], y |-> floats[2], z |-> floats[3]]

\* item.x() >= prev.x() && item.y() >= prev.y() && item.z() >= prev.z()
geq(item, prev) == item.x >= prev.x /\ item.y >= prev.y /\ item.z >= prev.z

\* item.1 == prev.1
same_floats(item, prev) == item.x = prev.x /\ item.y = prev.y /\ item.z = prev.z

\* the closure of prev_items.retain: TRUE when prev stays
retain(item, prev) == same_floats(item, prev) \/ ~ geq(item, prev)

\* the assignment item_dominated = true of the closure, for one list
dominates_item(prev_items, item) ==
  \E i \in 1 .. Len(prev_items) :
    /\ ~ same_floats(item, prev_items[i])
    /\ ~ geq(item, prev_items[i])
    /\ geq(prev_items[i], item)

\* the key below a key of the map, NoneVal at the lowest: cursor.prev()
key_below(map, key) ==
  IF \E k \in DOMAIN map : k < key
  THEN CHOOSE k \in DOMAIN map : k < key /\ \A l \in DOMAIN map : l < key => l <= k
  ELSE NoneVal

\* while let Some((_, prev_items)) = cursor.peek_prev() { ... }: the map and
\* item_dominated after the loop, from the entry `key` before the cursor
\* down; cursor.remove_prev() takes the key of an emptied list out of the map
RECURSIVE retain_loop(_, _, _, _)
retain_loop(map, item, key, item_dominated) ==
  IF key = NoneVal
  THEN [map |-> map, item_dominated |-> item_dominated]
  ELSE retain_loop(
         IF SelectSeq(map[key], LAMBDA prev : retain(item, prev)) = << >>
         THEN [k \in DOMAIN map \ {key} |-> map[k]]
         ELSE [map EXCEPT ![key] = SelectSeq(@, LAMBDA prev : retain(item, prev))],
         item,
         key_below(map, key),
         item_dominated \/ dominates_item(map[key], item))

\* the entry before the cursor after lower_bound_mut(Included(&item.y())) and
\* cursor.next(): the lowest key >= item.y, or else the highest key
first_prev(map, item) ==
  IF \E k \in DOMAIN map : k >= item.y
  THEN CHOOSE k \in DOMAIN map : k >= item.y /\ \A l \in DOMAIN map : l >= item.y => k <= l
  ELSE CHOOSE k \in DOMAIN map : \A l \in DOMAIN map : l <= k

\* map.entry(item.y()).and_modify(|e| e.push(item)).or_insert(vec![item])
push_item(map, item) ==
  IF item.y \in DOMAIN map
  THEN [map EXCEPT ![item.y] = Append(@, item)]
  ELSE [k \in DOMAIN map \cup {item.y} |-> IF k = item.y THEN << item >> ELSE map[k]]

\* the body of `for item in items.into_iter()`
add_item(map, item) ==
  IF DOMAIN map = {}
  THEN push_item(map, item)
  ELSE CHOOSE m \in
         { IF r.item_dominated THEN r.map ELSE push_item(r.map, item) :
             r \in { retain_loop(map, item, first_prev(map, item), FALSE) } } : TRUE

\* the for loop over the sorted items, from the empty map
RECURSIVE from_sorted(_, _, _)
from_sorted(map, items, i) ==
  IF i > Len(items) THEN map
  ELSE from_sorted(add_item(map, items[i]), items, i + 1)

\* items.sort_unstable_by(|a, b| b.x().cmp(&a.x())): the orders it may leave,
\* items of equal x in any order
sort_unstable_by_x(items) ==
  { [i \in 1 .. Len(items) |-> items[p[i]]] :
      p \in { q \in Permutations(1 .. Len(items)) :
                \A i, j \in 1 .. Len(items) :
                  i < j => items[q[i]].x >= items[q[j]].x } }

\* TriObjectiveParetoSet::items, as the set of the items
items_of(map) == UNION { { map[k][i] : i \in 1 .. Len(map[k]) } : k \in DOMAIN map }

\* the input vectors: up to MaxItems items; the order of the input matters
\* through the sort only, so that the vectors are listed in one order
ParetoInputs ==
  UNION { { [i \in 1 .. n |-> ParetoItem_new(i - 1, f[i])] :
              f \in { g \in [1 .. n -> Floats \X Floats \X Floats] :
                        \A i \in 1 .. n - 1 :
                          9 * g[i][1] + 3 * g[i][2] + g[i][3]
                            <= 9 * g[i + 1][1] + 3 * g[i + 1][2] + g[i + 1][3] } } :
          n \in 0 .. MaxItems }

ParetoInit ==
  /\ \E items \in ParetoInputs : args = [items |-> items]
  /\ op = "call"
  /\ st = Unset /\ source = "None" /\ sim = Unset
  /\ actions = << >> /\ iteration = 0 /\ ret = << >>

\* let set = TriObjectiveParetoSet::from(items)
ParetoFrom ==
  /\ op = "call"
  /\ \E sorted \in sort_unstable_by_x(args.items) :
       ret' = << from_sorted(<< >>, sorted, 1) >>
  /\ op' = "from"
  /\ UNCHANGED << st, source, args, sim, actions, iteration >>

ParetoSpec == ParetoInit /\ [][ParetoFrom]_vars

\* the items of a vector that no other item of it dominates
ParetoOptimal(items) ==
  { items[i] : i \in { j \in 1 .. Len(items) :
      ~ \E k \in 1 .. Len(items) :
          geq(items[k], items[j]) /\ ~ same_floats(items[k], items[j]) } }

\* C20, as stated: TriObjectiveParetoSet::from(items) holds exactly the
\* Pareto-optimal items of the input: an item is in the result iff no other
\* item with different coordinates is >= it in x, y and z.
C20_Original ==
  op = "from" => items_of(ret[1]) = ParetoOptimal(args.items)

(***************************************************************************)
(* Properties of the pruner and of the one-shot actions                    *)
(***************************************************************************)

\* C21, as stated: in both modes the CP-budget rule removes an action iff the
\* CP it would be charged if executed next (18 for a comboed StandardTouch or
\* AdvancedTouch, the base cost otherwise) exceeds cp: a non-terminal state
\* offers the actions of the pool that this charge, the quality rule and the
\* rules of the mode let through.
C21_Original ==
  ( op \in {"execute", "execute_strict"} /\ ~ Terminal(st) ) =>
    \A a \in st.context.action_pool :
      a \in st.available_moves <=>
        /\ ~ ( attributes(a).cp_cost # NoneVal
               /\ Charge(st.previous_combo_action, a) > st.cp )
        /\ ~ ( st.quality >= st.context.quality_target
               /\ attributes(a).quality_efficiency # NoneVal )
        /\ IF op = "execute_strict" /\ strict_rules(st, a) # "next"
           THEN strict_rules(st, a) = "true"
           ELSE action_rules(st, a, op = "execute_strict")

\* C22, as stated, for the action that follows TrainedPerfection at once:
\* TrainedPerfection leaves trained_perfection_active active, and the next
\* action with a positive base durability cost consumes no durability and
\* moves trained_perfection_active to used.
C22_Original ==
  [][ ( /\ op' \in {"execute", "execute_strict"}
        /\ st.action = "TrainedPerfection"
        /\ attributes(st'.action).durability_cost > 0 ) =>
        /\ st.trained_perfection_active = "SomeTrue"
        /\ st'.durability >= st.durability
        /\ st'.trained_perfection_active = "SomeFalse" ]_vars

\* C23, as stated, for the state that TrainedPerfection leaves: once
\* TrainedPerfection has been executed it is not in available_moves, in either
\* mode, and the next action executed is not TrainedPerfection again.
C23_Original ==
  [][ op' \in {"execute", "execute_strict"} =>
        /\ st'.action = "TrainedPerfection" =>
             "TrainedPerfection" \notin st'.available_moves
        /\ st.action = "TrainedPerfection" =>
             st'.action # "TrainedPerfection" ]_vars

\* a non-terminal state of a non-strict craft whose pool has QuickInnovation
QuickInnovationCase ==
  /\ op \in {"new", "execute"}
  /\ ~ Terminal(st)
  /\ "QuickInnovation" \in st.context.action_pool

\* C24, as stated: in non-strict mode QuickInnovation is available iff
\* context.use_delineation is set and buffs.innovation is 0, also after it has
\* been used earlier in the craft.
C24_Original ==
  QuickInnovationCase =>
    ( "QuickInnovation" \in st.available_moves
        <=> st.context.use_delineation /\ st.buffs.innovation = 0 )

\* C24, amended: in non-strict mode QuickInnovation is available iff
\* quick_innovation_available is set and buffs.innovation is 0, where
\* quick_innovation_available is context.use_delineation in a new state and
\* is cleared for good by the first execution of QuickInnovation.
C24_QuickInnovationOnce ==
  /\ [] ( QuickInnovationCase =>
            ( "QuickInnovation" \in st.available_moves
                <=> st.quick_innovation_available /\ st.buffs.innovation = 0 ) )
  /\ [] ( op \in {"new", "new_strict"} =>
            st.quick_innovation_available = st.context.use_delineation )
  /\ [][ st'.quick_innovation_available
           = ( st.quick_innovation_available
               /\ ~ ( op' \in {"execute", "execute_strict"}
                      /\ st'.action = "QuickInnovation" ) ) ]_vars

\* QuickInnovation was used, its Innovation has run out, the craft goes on
C24_Witness ==
  /\ QuickInnovationCase
  /\ op = "execute"
  /\ st.context.use_delineation
  /\ ~ st.quick_innovation_available
  /\ st.buffs.innovation = 0
  /\ "QuickInnovation" \notin st.available_moves

(***************************************************************************)
(* Properties of the search tree                                           *)
(***************************************************************************)

\* the leaves that solution() can end in: from the node at index, descend
\* to any child of greatest max_score until a node has no children
RECURSIVE GreedyLeaves(_, _)
GreedyLeaves(tree, index) ==
  IF get(tree, index).children = << >> THEN {index}
  ELSE UNION
    { GreedyLeaves(tree, c) :
      c \in { c \in Range(get(tree, index).children) :
              \A d \in Range(get(tree, index).children) :
                get(tree, d).state.max_score <= get(tree, c).state.max_score } }

\* every leaf solution() can end in is Finished with the root's max_score
BestRecovered(tree) ==
  \A leaf \in GreedyLeaves(tree, 0) :
    /\ check_result(get(tree, leaf).state).kind = "Finished"
    /\ check_result(get(tree, leaf).state).score = get(tree, 0).state.max_score

\* what the iteration that starts in simulator selects, expands and plays out
IterationOf(simulator) == expand_and_rollout(simulator, select(simulator, 0))

\* C25, as stated, for the child that wins a tie in the code: when an
\* iteration has ended in Finished(s) with s >= score_storage_threshold and s
\* is the greatest score so far, solution() ends in a Finished node whose
\* score is the root's max_score.
C25_Original ==
  [][ ( /\ op = "search" /\ iteration' = iteration + 1
        /\ IterationOf(sim).result.kind = "Finished"
        /\ IterationOf(sim).result.score >= sim.score_storage_threshold
        /\ IterationOf(sim).result.score = get(sim'.tree, 0).state.max_score ) =>
      /\ check_result(solution(sim').state).kind = "Finished"
      /\ check_result(solution(sim').state).score
           = get(sim'.tree, 0).state.max_score ]_vars

\* the recoverable case: when the root's max_score is positive and at least
\* score_storage_threshold, solution(), whatever child wins a tie, ends in a
\* Finished node whose score is the root's max_score
PositiveBestIsRecoverable ==
  ( /\ op = "search"
    /\ get(sim.tree, 0).state.max_score > 0
    /\ get(sim.tree, 0).state.max_score >= sim.score_storage_threshold ) =>
    BestRecovered(sim.tree)

\* the sum of the visits of the nodes listed in children
RECURSIVE SumVisits(_, _)
SumVisits(tree, children) ==
  IF children = << >> THEN 0
  ELSE get(tree, Head(children)).state.visits + SumVisits(tree, Tail(children))

\* the score an iteration backpropagates: 0 unless it ended in Finished(s)
IterationScore(e) == IF e.result.kind = "Finished" THEN e.result.score ELSE 0

\* C26: after k completed iterations of a search from the root, the root has
\* visits == k and every iteration has added its score (0 unless Finished) to
\* the root's score_sum, which starts at 0; every other node has visits >= 1;
\* every node has visits >= the sum of its children's visits and max_score >=
\* each child's max_score.
C26_TreeStatistics ==
  /\ [] ( op = "search" =>
            /\ get(sim.tree, 0).state.visits = iteration
            /\ iteration = 0 => get(sim.tree, 0).state.score_sum = 0
            /\ \A i \in 1 .. Len(sim.tree) - 1 : get(sim.tree, i).state.visits >= 1
            /\ \A i \in 0 .. Len(sim.tree) - 1 :
                 /\ get(sim.tree, i).state.visits
                      >= SumVisits(sim.tree, get(sim.tree, i).children)
                 /\ \A c \in Range(get(sim.tree, i).children) :
                      get(sim.tree, i).state.max_score
                        >= get(sim.tree, c).state.max_score )
  /\ [][ ( op = "search" /\ iteration' = iteration + 1 ) =>
           get(sim'.tree, 0).state.score_sum
             = get(sim.tree, 0).state.score_sum
                 + IterationScore(IterationOf(sim)) ]_vars

\* three iterations, a positive score_sum at the root and a node below the
\* root that was visited more than once and has a child
C26_Witness ==
  /\ op = "search" /\ iteration >= 3
  /\ get(sim.tree, 0).state.score_sum > 0
  /\ \E i \in 1 .. Len(sim.tree) - 1 :
       /\ get(sim.tree, i).state.visits >= 2
       /\ get(sim.tree, i).children # << >>

\* the descent of select from the node at index: wherever it scores the
\* children of a node, the node and each of the children have visits >= 1
RECURSIVE EvalIsDefined(_, _)
EvalIsDefined(simulator, index) ==
  IF \/ get(simulator.tree, index).state.available_moves # {}
     \/ get(simulator.tree, index).children = << >>
  THEN TRUE
  ELSE /\ get(simulator.tree, index).state.visits >= 1
       /\ \A c \in Range(get(simulator.tree, index).children) :
            get(simulator.tree, c).state.visits >= 1
       /\ EvalIsDefined(simulator,
            get(simulator.tree, index).children[
              max_by([ k \in DOMAIN get(simulator.tree, index).children |->
                       eval(simulator,
                            get(simulator.tree,
                                get(simulator.tree, index).children[k]).state,
                            get(simulator.tree, index).state) ])])

\* the number of nodes whose children select scores on its descent from index
RECURSIVE EvalDepth(_, _)
EvalDepth(simulator, index) ==
  IF \/ get(simulator.tree, index).state.available_moves # {}
     \/ get(simulator.tree, index).children = << >>
  THEN 0
  ELSE 1 + EvalDepth(simulator,
             get(simulator.tree, index).children[
               max_by([ k \in DOMAIN get(simulator.tree, index).children |->
                        eval(simulator,
                             get(simulator.tree,
                                 get(simulator.tree, index).children[k]).state,
                             get(simulator.tree, index).state) ])])

\* C27: whenever select scores a child with eval(child, parent), the child and
\* the parent have visits >= 1, so eval divides by a positive number and takes
\* the logarithm of a positive number; also for nodes of a stored rollout path.
C27_EvalIsDefined ==
  op = "search" => EvalIsDefined(sim, 0)

\* select scores children on two levels of a tree that holds a stored rollout
\* path (more nodes than iterations)
C27_Witness ==
  /\ op = "search"
  /\ EvalDepth(sim, 0) >= 2
  /\ Len(sim.tree) - 1 > iteration

\* the expansion and the playout of an iteration that selects the node at
\* index: the expanded state and what the playout loop yields from it
PlayoutOf(simulator, index) ==
  CHOOSE r \in
    { [expanded |-> x.state, playout |-> rollout(x.state, x.rng, << >>)] :
      x \in { [state |-> execute_strict(get(simulator.tree, index).state, d.action),
               rng |-> d.rng] :
              d \in { sample(get(simulator.tree, index).state.available_moves,
                             simulator.rng) } } } : TRUE

\* the result of a playout is one whose path is stored
Stored(simulator, result) ==
  /\ result.kind = "Finished"
  /\ result.score >= simulator.score_storage_threshold
  /\ result.score >= get(simulator.tree, 0).state.max_score

\* C28: an iteration appends no node when the selected node is terminal or has
\* no moves, one node when the playout is not stored, and 1 + L nodes when a
\* playout of L actions is stored; the last node of a stored path has the game
\* fields of the playout's final state and its classification; no node is
\* removed, and the game fields and the parent of the nodes that were in the
\* arena stay as they were.
C28_IterationGrowth ==
  [][ ( op = "search" /\ iteration' = iteration + 1 ) =>
        \A i \in { select(sim, 0) } :
          /\ Len(sim'.tree) >= Len(sim.tree)
          /\ \A k \in 1 .. Len(sim.tree) :
               /\ Core(sim'.tree[k].state) = Core(sim.tree[k].state)
               /\ sim'.tree[k].parent = sim.tree[k].parent
          /\ IF \/ Terminal(get(sim.tree, i).state)
                \/ get(sim.tree, i).state.available_moves = {}
             THEN Len(sim'.tree) = Len(sim.tree)
             ELSE \A x \in { PlayoutOf(sim, i) } :
                    IF Stored(sim, x.playout.result)
                    THEN /\ Len(sim'.tree)
                              = Len(sim.tree) + 1 + Len(x.playout.action_history)
                         /\ Core(sim'.tree[Len(sim'.tree)].state)
                              = Core(ReplayStrict(x.expanded,
                                                  x.playout.action_history, 0,
                                                  Len(x.playout.action_history)))
                         /\ check_result(sim'.tree[Len(sim'.tree)].state)
                              = x.playout.result
                    ELSE Len(sim'.tree) = Len(sim.tree) + 1 ]_vars

\* one iteration selected a dead end and appended nothing, and another stored
\* the path of its playout: the others appended more nodes than one each
C28_Witness ==
  /\ op = "search" /\ iteration >= 2
  /\ sim.dead_ends_selected >= 1
  /\ Len(sim.tree) - 1 > iteration - sim.dead_ends_selected

\* the actions recorded in the children of the node at index
ChildActions(tree, index) ==
  { get(tree, c).state.action : c \in Range(get(tree, index).children) }

\* the move set the node at index had when it was created: the root of
\* search_oneshot is CraftState::new(context), every other node is what
\* execute_strict made of its parent
CreatedMoves(context, tree, index) ==
  IF index = 0 THEN CraftState_new(context).available_moves
  ELSE execute_strict(get(tree, get(tree, index).parent).state,
                      get(tree, index).state.action).available_moves

\* the nodes select descends through from the node at index
RECURSIVE Descended(_, _)
Descended(simulator, index) ==
  IF \/ get(simulator.tree, index).state.available_moves # {}
     \/ get(simulator.tree, index).children = << >>
  THEN {}
  ELSE {index} \cup
       Descended(simulator,
         get(simulator.tree, index).children[
           max_by([ k \in DOMAIN get(simulator.tree, index).children |->
                    eval(simulator,
                         get(simulator.tree,
                             get(simulator.tree, index).children[k]).state,
                         get(simulator.tree, index).state) ])])

\* C29: at every point of a search, for every node the actions recorded in
\* its children are pairwise distinct and disjoint from its remaining
\* available_moves, and together with them they are the move set the node had
\* when it was created; select only descends through nodes whose
\* available_moves is empty.
C29_MovesPartition ==
  op = "search" =>
    /\ \A i \in 0 .. Len(sim.tree) - 1 :
         /\ Cardinality(ChildActions(sim.tree, i)) = Len(get(sim.tree, i).children)
         /\ ChildActions(sim.tree, i) \cap get(sim.tree, i).state.available_moves = {}
         /\ ChildActions(sim.tree, i) \cup get(sim.tree, i).state.available_moves
              = CreatedMoves(args.context, sim.tree, i)
    /\ \A i \in Descended(sim, 0) : get(sim.tree, i).state.available_moves = {}

\* select descends through the root, which has used up its moves on two
\* children or more, and a node below it has a child and moves left
C29_Witness ==
  /\ op = "search"
  /\ 0 \in Descended(sim, 0)
  /\ Len(get(sim.tree, 0).children) >= 2
  /\ \E i \in 1 .. Len(sim.tree) - 1 :
       /\ get(sim.tree, i).children # << >>
       /\ get(sim.tree, i).state.available_moves # {}

(***************************************************************************)
(* The precedence of the classification                                    *)
(***************************************************************************)

\* C30: check_result classifies by strict precedence: Finished whenever
\* progress >= progress_target, also when durability <= 0 or step >= step_max;
\* otherwise DurabilityFailure when durability <= 0, also when step >=
\* step_max; otherwise MaxStepsFailure when step >= step_max; otherwise
\* InvalidActionFailure when available_moves is empty; otherwise None.
C30_Precedence ==
  check_result(st).kind =
    IF st.progress >= st.context.progress_target THEN "Finished"
    ELSE IF st.durability <= 0 THEN "DurabilityFailure"
    ELSE IF st.step >= st.context.step_max THEN "MaxStepsFailure"
    ELSE IF st.available_moves = {} THEN "InvalidActionFailure"
    ELSE "None"

\* a craft classified Finished after the action that completed it used up
\* the durability on the last step
C30_Witness ==
  /\ op \in {"execute", "execute_strict"}
  /\ check_result(st).kind = "Finished"
  /\ st.durability <= 0
  /\ st.step >= st.context.step_max

(***************************************************************************)
(* Properties of the buffs                                                 *)
(***************************************************************************)

\* the durability an action leaves: its cost is subtracted, then Manipulation
\* that was active before the action restores 5 up to durability_max if the
\* durability is still positive, then a mend takes effect
DurabilityAfter(s, action) ==
  LET base == attributes(action).durability_cost
      cost == IF base = NoneVal THEN 0
              ELSE IF s.buffs.waste_not > 0 \/ s.buffs.waste_not_ii > 0
              THEN DivTrunc(base, 2) ELSE base
      paid == s.durability - cost
      restored == IF s.buffs.manipulation > 0 /\ paid > 0
                  THEN Min(paid + 5, s.context.durability_max) ELSE paid
  IN IF action = "MastersMend" THEN Min(restored + 30, s.context.durability_max)
     ELSE IF action = "ImmaculateMend" THEN s.context.durability_max
     ELSE restored

\* C31: an action that consumes a step restores 5 durability, after its own
\* cost and never above durability_max, iff Manipulation was active before it
\* and the durability is still positive after the cost: the action that casts
\* Manipulation with none active restores nothing and leaves the timer at 8,
\* every other action takes one off the timer, so the next 8 actions restore,
\* and an action that brings the durability to 0 or below is not rescued.
C31_ManipulationRestoresLater ==
  [][ ( op' \in {"execute", "execute_strict"}
        /\ st'.action # "QuickInnovation" ) =>
        /\ st'.durability = DurabilityAfter(st, st'.action)
        /\ st'.buffs.manipulation
             = IF st'.action = "Manipulation" THEN 8
               ELSE Max(st.buffs.manipulation - 1, 0) ]_vars

\* an action under Manipulation, which is still active after it, has used up
\* the durability and is not rescued
C31_Witness ==
  /\ op \in {"execute", "execute_strict"}
  /\ st.action \notin {"QuickInnovation", "Manipulation"}
  /\ st.buffs.manipulation > 0
  /\ st.durability <= 0

\* the timers of Buffs: every field but inner_quiet
Timers ==
  {"waste_not", "waste_not_ii", "manipulation", "great_strides", "innovation",
   "veneration", "muscle_memory"}

\* the value the effect of an action writes to a timer, NoneVal if it writes
\* none: a grant, or the 0 that one kind of Waste Not writes over the other
Granted(action, timer) ==
  CASE action = "WasteNot" /\ timer = "waste_not" -> 4
    [] action = "WasteNot" /\ timer = "waste_not_ii" -> 0
    [] action = "WasteNotII" /\ timer = "waste_not" -> 0
    [] action = "WasteNotII" /\ timer = "waste_not_ii" -> 8
    [] action = "Veneration" /\ timer = "veneration" -> 4
    [] action = "GreatStrides" /\ timer = "great_strides" -> 3
    [] action = "Innovation" /\ timer = "innovation" -> 4
    [] action = "MuscleMemory" /\ timer = "muscle_memory" -> 5
    [] action = "Manipulation" /\ timer = "manipulation" -> 8
    [] OTHER -> NoneVal

\* the action consumes the timer: muscle_memory by a progress action,
\* great_strides by a quality action
Consumed(action, timer) ==
  \/ timer = "muscle_memory" /\ attributes(action).progress_efficiency # NoneVal
  \/ timer = "great_strides" /\ attributes(action).quality_efficiency # NoneVal

\* C32: after an action other than QuickInnovation every timer is the value
\* the effect of the action writes if it writes one, else 0 if the action
\* consumed it, else one less than before and at least 0; inner_quiet changes
\* only through a quality action and only upwards, but for the reset to 0 by
\* ByregotsBlessing; waste_not and waste_not_ii are never both positive.
C32_TimerLaw ==
  /\ [][ ( op' \in {"execute", "execute_strict"}
           /\ st'.action # "QuickInnovation" ) =>
           /\ \A timer \in Timers :
                st'.buffs[timer] =
                  IF Granted(st'.action, timer) # NoneVal
                  THEN Granted(st'.action, timer)
                  ELSE IF Consumed(st'.action, timer) THEN 0
                  ELSE Max(st.buffs[timer] - 1, 0)
           /\ IF attributes(st'.action).quality_efficiency = NoneVal
              THEN st'.buffs.inner_quiet = st.buffs.inner_quiet
              ELSE \/ st'.buffs.inner_quiet >= st.buffs.inner_quiet
                   \/ st'.action = "ByregotsBlessing" /\ st'.buffs.inner_quiet = 0
         ]_vars
  /\ [] ~ ( st.buffs.waste_not > 0 /\ st.buffs.waste_not_ii > 0 )

\* MuscleMemory, GreatStrides, WasteNotII: the first two grants have run
\* down by two steps and by one, the third is fresh
C32_Witness ==
  /\ op \in {"execute", "execute_strict"}
  /\ st.action = "WasteNotII"
  /\ st.buffs.waste_not_ii = 8 /\ st.buffs.waste_not = 0
  /\ st.buffs.muscle_memory = 3
  /\ st.buffs.great_strides = 2

(***************************************************************************)
(* Properties of the pruner under strict rules                             *)
(***************************************************************************)

\* C33, as stated: when Observe is among the strict moves of a state with
\* quality < quality_target and AdvancedTouch in the pool and is executed, and
\* the successor has step < step_max, the CP-budget rule of the pruner lets
\* AdvancedTouch through in the successor, which offers it unless a strict rule
\* on Muscle Memory or Veneration removes it.
C33_Original ==
  [][ ( /\ op \in StrictOps /\ op' = "execute_strict"
        /\ st'.action = "Observe"
        /\ st.quality < st.context.quality_target
        /\ "AdvancedTouch" \in st.context.action_pool
        /\ st'.step < st.context.step_max ) =>
        /\ ~ ( calc_cp_cost(st', attributes("AdvancedTouch").cp_cost) > st'.cp )
        /\ strict_rules(st', "AdvancedTouch") = "next" =>
             "AdvancedTouch" \in st'.available_moves ]_vars

(***************************************************************************)
(* Unsigned arithmetic                                                     *)
(***************************************************************************)

\* C34: executing an action of available_moves, in either mode, never
\* underflows an unsigned counter: the CP charged is at most cp and is what is
\* taken off cp, TrainedEye is executed with quality <= quality_target and
\* brings quality to quality_target, no action lowers quality, and the step
\* counter is below step_max, so that step + 1 fits 8 bits.
C34_NoUnderflow ==
  [][ op' \in {"execute", "execute_strict"} =>
        /\ IF attributes(st'.action).cp_cost # NoneVal
           THEN /\ Charge(st.previous_combo_action, st'.action) <= st.cp
                /\ st'.cp = st.cp - Charge(st.previous_combo_action, st'.action)
           ELSE st'.cp = st.cp
        /\ st'.cp >= 0
        /\ st'.action = "TrainedEye" =>
             /\ st.quality <= st.context.quality_target
             /\ st'.quality = st.context.quality_target
        /\ st'.quality >= st.quality
        /\ st.step < st.context.step_max /\ st.context.step_max <= 255
        /\ st'.step = IF st'.action = "QuickInnovation"
                      THEN st.step ELSE st.step + 1 ]_vars

\* TrainedEye has raised the quality to the target and left 10 CP
C34_Witness ==
  /\ op \in {"execute", "execute_strict"}
  /\ st.action = "TrainedEye"
  /\ st.quality = st.context.quality_target
  /\ st.cp = 10

(***************************************************************************)
(* Termination of playouts                                                 *)
(***************************************************************************)

\* the executions a craft has left: the steps up to step_max, and one more
\* while QuickInnovation can still be used
ExecutionsLeft(state) ==
  (state.context.step_max - state.step)
    + (IF state.quick_innovation_available THEN 1 ELSE 0)

\* C35: every execution of a move takes exactly one off the executions a craft
\* has left, which are at most (step_max - step) + 1 and never negative, and a
\* state that is not classified has one left or more; so every sequence of
\* strict moves from a state is classified after at most
\* (step_max - step) + 1 executions.
C35_PlayoutsAreBounded ==
  /\ [][ op' \in {"execute", "execute_strict"} =>
           ExecutionsLeft(st') = ExecutionsLeft(st) - 1 ]_vars
  /\ [] ( /\ ExecutionsLeft(st) >= 0
          /\ ExecutionsLeft(st) <= (st.context.step_max - st.step) + 1
          /\ check_result(st).kind = "None" => st.step < st.context.step_max )

\* a craft that used QuickInnovation and every step: step_max executions
\* from its first state
C35_Witness ==
  /\ op = "execute_strict"
  /\ st.context.use_delineation /\ ~ st.quick_innovation_available
  /\ st.step = st.context.step_max
  /\ check_result(st).kind = "MaxStepsFailure"

(***************************************************************************)
(* Properties of search_stepwise                                           *)
(***************************************************************************)

\* C36: when search_stepwise returns, the actions action_callback was called
\* with, in order, are the actions the returned list holds after the input
\* history; while it runs they are the actions committed so far; no call is
\* made when the replay of the history is already classified, and the history
\* is returned as it was.
C36_CallbackMirrorsResult ==
  /\ op = "done" =>
       /\ Len(ret) = 1
       /\ ret[1].actions = args.action_history \o source
       /\ simulate(args.context, args.action_history, 0).result.kind # "None" =>
            source = << >> /\ ret[1].actions = args.action_history
  /\ op \in {"loop", "search"} => actions = args.action_history \o source

\* a call that returns two actions after a history that is not empty
C36_Witness ==
  /\ op = "done"
  /\ Len(source) >= 2
  /\ args.action_history # << >>

\* C37: in search_stepwise the score_storage_threshold in effect is 1.0
\* whatever the caller passed; every Finished state of the tree and every
\* result of an iteration scores less than 1.0, so no iteration stores the
\* path of its playout (it adds one node at most) and no solution has
\* max_score >= 1.0: the early exit is never taken.
C37_NothingStoredStepwise ==
  /\ [] ( op = "search" =>
            /\ sim.score_storage_threshold = ScoreScale
            /\ Len(sim.tree) <= iteration + 1
            /\ \A i \in 0 .. Len(sim.tree) - 1 :
                 /\ get(sim.tree, i).state.max_score < ScoreScale
                 /\ check_result(get(sim.tree, i).state).kind = "Finished" =>
                      check_result(get(sim.tree, i).state).score < ScoreScale
            /\ solution(sim).state.max_score < ScoreScale )
  /\ [] ( op = "done" => ret[1].state.max_score < ScoreScale )
  /\ [][ ( op = "search" /\ iteration' = iteration + 1 ) =>
           /\ Len(sim'.tree) <= Len(sim.tree) + 1
           /\ IterationOf(sim).result.score < ScoreScale
           /\ \A i \in { select(sim, 0) } :
                check_result(get(sim.tree, i).state).kind = "None" =>
                  ~ Stored(sim, PlayoutOf(sim, i).playout.result) ]_vars

\* the caller passed the threshold 0, a playout has finished the craft, and
\* every iteration has added one node
C37_Witness ==
  /\ op = "search"
  /\ args.search_options.score_storage_threshold = 0
  /\ iteration >= 2
  /\ get(sim.tree, 0).state.max_score > 0
  /\ Len(sim.tree) = iteration + 1

(***************************************************************************)
(* C38: the frame of QuickInnovation.                                      *)
(***************************************************************************)

\* the buff timers other than innovation
OtherTimers ==
  { "inner_quiet", "waste_not", "waste_not_ii", "manipulation",
    "great_strides", "veneration", "muscle_memory" }

\* an execution of QuickInnovation
QuickInnovationStep ==
  /\ op' \in {"execute", "execute_strict"}
  /\ st'.action = "QuickInnovation"

C38_FrameButDurability ==
  [][ QuickInnovationStep =>
        /\ st'.step = st.step
        /\ st'.progress = st.progress
        /\ st'.quality = st.quality
        /\ st'.cp = st.cp
        /\ \A timer \in OtherTimers : st'.buffs[timer] = st.buffs[timer]
        /\ st'.buffs.innovation = 1
        /\ st'.quick_innovation_available = FALSE
        /\ st'.previous_combo_action = "None" ]_vars

\* QuickInnovation changes the durability only by the restore of Manipulation
C38_DurabilityUnderManipulation ==
  [][ QuickInnovationStep =>
        st'.durability =
          IF st.buffs.manipulation > 0 /\ st.durability > 0
          THEN Min(st.durability + 5, st.context.durability_max)
          ELSE st.durability ]_vars

(***************************************************************************)
(* C39: the action pool of a context.  CraftContext::new is called on a    *)
(* player and a recipe; `args` is the input and `ret` the context.         *)
(***************************************************************************)

\* the highest job level
MaxJobLevel == 100

\* the CP of the players: each price of an action, and one point less
CpSamples ==
  {0} \cup UNION { { attributes(a).cp_cost - 1, attributes(a).cp_cost }
                     : a \in { b \in Action : attributes(b).cp_cost > 0 } }

\* how far the player is above the recipe
GapSamples == { -5, 9, 10 }

PoolInit ==
  /\ \E job_level \in 1 .. MaxJobLevel, cp \in CpSamples, gap \in GapSamples :
       /\ job_level - gap >= 1
       /\ args = [player |-> Player_new(job_level, 83, 20, cp),
                  recipe |-> Recipe_new(job_level - gap, 60, 40, 30, 90, 80, FALSE),
                  options |-> CraftOptions_new(MaxSteps, NoneVal, NoneVal, FALSE, FALSE)]
  /\ op = "call"
  /\ st = Unset /\ source = "None" /\ sim = Unset
  /\ actions = << >> /\ iteration = 0 /\ ret = << >>

\* let context = CraftContext::new(&player, &recipe, options)
ContextNew ==
  /\ op = "call"
  /\ ret' = << CraftContext_new(args.player, args.recipe, args.options) >>
  /\ op' = "new"
  /\ UNCHANGED << st, source, args, sim, actions, iteration >>

PoolSpec == PoolInit /\ [][ContextNew]_vars

\* the action can be used by the player at all: level, base CP cost, and the
\* level gap of TrainedEye
Qualifies(a, player, recipe) ==
  /\ attributes(a).level <= player.job_level
  /\ ( IF attributes(a).cp_cost = NoneVal THEN 0 ELSE attributes(a).cp_cost )
       <= player.cp
  /\ a = "TrainedEye" => player.job_level - recipe.job_level >= 10

\* the traited variant of an untraited action
Traited(a) ==
  CASE a = "BasicSynthesis"    -> "BasicSynthesisTraited"
    [] a = "CarefulSynthesis"  -> "CarefulSynthesisTraited"
    [] a = "Groundwork"        -> "GroundworkTraited"
    [] a = "DelicateSynthesis" -> "DelicateSynthesisTraited"
    [] OTHER                   -> "None"

\* C39: the pool of a context contains an action iff the action qualifies
\* (level, base CP cost, level gap for TrainedEye) and is not the untraited
\* twin of a traited action that qualifies; so the pool never contains both
\* variants of a traited pair.
C39_ActionPool ==
  op = "new" =>
    /\ \A a \in Action :
         a \in ret[1].action_pool <=>
           /\ Qualifies(a, args.player, args.recipe)
           /\ ~ ( Traited(a) # "None"
                  /\ Qualifies(Traited(a), args.player, args.recipe) )
    /\ \A a \in Action :
         Traited(a) # "None" =>
           ~ ( a \in ret[1].action_pool /\ Traited(a) \in ret[1].action_pool )

\* a level 100 player nine levels above the recipe, with 250 CP: all four
\* traited actions qualify and replace their twins, and TrainedEye, whose
\* level and price the player meets, is left out for the level gap
C39_Witness ==
  /\ op = "new"
  /\ args.player.job_level = 100 /\ args.player.cp = 250
  /\ args.recipe.job_level = 91
  /\ \A a \in { "BasicSynthesis", "CarefulSynthesis", "Groundwork",
                "DelicateSynthesis" } :
       /\ Qualifies(a, args.player, args.recipe)
       /\ a \notin ret[1].action_pool
       /\ Traited(a) \in ret[1].action_pool
  /\ attributes("TrainedEye").cp_cost <= args.player.cp
  /\ "TrainedEye" \notin ret[1].action_pool

(***************************************************************************)
(* The search pool of the command line tool: search_pool_size searches of  *)
(* one context run in parallel in SearchMode::Oneshot, each on a thread of *)
(* its own, and the best result is taken.  `st` is the position of each    *)
(* thread, `sim` and `iteration` its Simulator and loop counter, `source`  *)
(* the value its closure returned.                                         *)
(***************************************************************************)

\* the largest search pool
MaxPool == 2

\* the most iterations of a search of the pool
PoolIterations == 2

\* the SearchOptions main builds from the arguments
CliOptions ==
  { SearchOptions_new(iterations, seed, (75 * ScoreScale) \div 100,
                      ScoreScale \div 10, (15 * ScoreScale) \div 10) :
      iterations \in 1 .. PoolIterations, seed \in {NoneVal} \cup Seeds }

\* the crafts of the pool: the level 10 and the level 20 crafter
PoolContexts == { context \in SearchContexts : context.player_job_level <= 20 }

ParInit ==
  /\ \E context \in PoolContexts, options \in CliOptions,
        search_pool_size \in 1 .. MaxPool :
       /\ args = [context |-> context, action_history |-> << >>,
                  search_options |-> options,
                  search_pool_size |-> search_pool_size]
       /\ st = [i \in 1 .. search_pool_size |-> "map"]
       /\ sim = [i \in 1 .. search_pool_size |-> Unset]
       /\ iteration = [i \in 1 .. search_pool_size |-> 0]
       /\ source = [i \in 1 .. search_pool_size |-> << >>]
  /\ op = "par_iter"
  /\ actions = << >> /\ ret = << >>

\* thread i, search_oneshot: let mut sim = Self::from_context(context, search_options)
ParFrom(i, entropy) ==
  /\ st[i] = "map"
  /\ sim' = [sim EXCEPT ![i] = from_context(args.context, args.search_options, entropy)]
  /\ st' = [st EXCEPT ![i] = "search"]
  /\ UNCHANGED << op, source, args, actions, iteration, ret >>

\* thread i, one iteration of the loop of sim.search(0)
ParIteration(i) ==
  /\ st[i] = "search"
  /\ iteration[i] < sim[i].iterations
  /\ sim' = [sim EXCEPT ![i] = search_iteration(sim[i], 0)]
  /\ iteration' = [iteration EXCEPT ![i] = @ + 1]
  /\ UNCHANGED << st, op, source, args, actions, ret >>

\* thread i, search_oneshot after the loop: the closure returns the solution
ParReturn(i) ==
  /\ st[i] = "search"
  /\ iteration[i] >= sim[i].iterations
  /\ \E r \in { solution(sim[i]) } :
       source' = [source EXCEPT ![i] =
                    << [actions |-> args.action_history \o r.actions,
                        state |-> r.state] >>]
  /\ st' = [st EXCEPT ![i] = "returned"]
  /\ UNCHANGED << op, args, sim, actions, iteration, ret >>

\* .max_by(|(_, a), (_, b)| a.max_score.partial_cmp(&b.max_score).unwrap()):
\* a result that no other exceeds; the order of the reduction is not fixed
ParMaxBy ==
  /\ op = "par_iter"
  /\ \A i \in DOMAIN st : st[i] = "returned"
  /\ \E i \in DOMAIN source :
       /\ \A j \in DOMAIN source :
            source[j][1].state.max_score <= source[i][1].state.max_score
       /\ ret' = << source[i][1] >>
  /\ op' = "done"
  /\ UNCHANGED << st, source, args, sim, actions, iteration >>

ParNext ==
  \/ \E i \in 1 .. MaxPool, entropy \in Seeds : i \in DOMAIN st /\ ParFrom(i, entropy)
  \/ \E i \in 1 .. MaxPool : i \in DOMAIN st /\ ParIteration(i)
  \/ \E i \in 1 .. MaxPool : i \in DOMAIN st /\ ParReturn(i)
  \/ ParMaxBy

ParSpec == ParInit /\ [][ParNext]_vars

\* the threads that have made their Simulator
Seeded == { i \in DOMAIN st : st[i] # "map" }

\* the simulator after n iterations of search(0)
RECURSIVE Iterated(_, _)
Iterated(simulator, n) ==
  IF n = 0 THEN simulator ELSE Iterated(search_iteration(simulator, 0), n - 1)

\* what search_oneshot returns when it runs alone with the seed
AloneWith(rng_seed) ==
  CHOOSE result \in
    { [actions |-> args.action_history \o r.actions, state |-> r.state] :
        r \in { solution(Iterated(from_context(args.context, args.search_options,
                                               rng_seed),
                                  args.search_options.iterations)) } } : TRUE

\* the searches differ in their seeds
DistinctSeeds ==
  \A i \in Seeded : \A j \in Seeded : i # j => sim[i].rng_seed # sim[j].rng_seed

\* every search returns what it returns when it runs alone, its states are on
\* the context of the call, and the result taken has the highest max_score
IndependentMaximum ==
  /\ \A i \in Seeded :
       /\ \A n \in 1 .. Len(sim[i].tree) :
            sim[i].tree[n].state.context = args.context
       /\ source[i] # << >> => source[i][1] = AloneWith(sim[i].rng_seed)
  /\ op = "done" =>
       /\ \E i \in DOMAIN source : ret[1] = source[i][1]
       /\ \A i \in DOMAIN source :
            source[i][1].state.max_score <= ret[1].state.max_score

\* C40, as stated: of N searches run in parallel on one context each has a
\* seed distinct from every other's, also when the user gave a seed; each
\* one's result is independent of the interleaving; the context is not
\* modified; and the result returned is one of highest max_score.
C40_Original == DistinctSeeds /\ IndependentMaximum

====
